---- MODULE Spec2Model ----
(***************************************************************************)
(* wclaude (runner.js): the auto-restart supervisor, the spawn hook with   *)
(* its tracked child-process set, and the signal handlers.                 *)
(*                                                                         *)
(* Time is Date.now() in milliseconds.  Strings are TLA+ strings; a JS     *)
(* value that is undefined / false where a string is expected is "".       *)
(***************************************************************************)
EXTENDS Integers, Sequences, FiniteSets, TLC

(***************************************************************************)
(* CONFIG (runner.js:103-110) and the two fixed delays                     *)
(***************************************************************************)
MAX_CRASH_RESTARTS == 3
CRASH_WINDOW_MS == 60000
MAX_NETWORK_RETRIES == 10
NETWORK_BACKOFF_BASE_MS == 5000
NETWORK_BACKOFF_MAX_MS == 60000
RESTART_DELAY_MS == 1000
EXIT_GRACE_MS == 100

(***************************************************************************)
(* Bounds of the model                                                     *)
(***************************************************************************)
MaxRuns == 4
MaxRunsTracked == 2
MaxChildren == 2
MaxSynthetic == 1

\* the largest attempt number handed to calculateBackoff on its own
MaxAttempt == 12

\* network episodes told apart by the specification of the network loop;
\* later ones count as the last
MaxEpisodes == 2

\* how long a run of the host entry point lasts before it throws or completes
RunDurations == {0, 30000, 60000}

\* Date.now() when the process starts: far more than a crash window after 0
StartTime == CRASH_WINDOW_MS + 1

(***************************************************************************)
(* String helpers (String.prototype.includes / toLowerCase)                *)
(***************************************************************************)
CharAt(s, i) == SubSeq(s, i, i)

Includes(s, sub) ==
  \E i \in 1..(Len(s) - Len(sub) + 1) : SubSeq(s, i, i + Len(sub) - 1) = sub

UpperChars == "ABCDEFGHIJKLMNOPQRSTUVWXYZ"
LowerChars == "abcdefghijklmnopqrstuvwxyz"

LowerChar(c) ==
  IF \E i \in 1..Len(UpperChars) : CharAt(UpperChars, i) = c
  THEN CharAt(LowerChars, CHOOSE i \in 1..Len(UpperChars) : CharAt(UpperChars, i) = c)
  ELSE c

RECURSIVE ToLowerCase(_)
ToLowerCase(s) ==
  IF Len(s) = 0 THEN s
  ELSE IF Len(s) = 1 THEN LowerChar(s)
  ELSE LET h == Len(s) \div 2
       IN ToLowerCase(SubSeq(s, 1, h)) \o ToLowerCase(SubSeq(s, h + 1, Len(s)))

(***************************************************************************)
(* windowsToPosix: three String.prototype.replace calls in a row           *)
(***************************************************************************)
IsAsciiLetter(c) ==
  \E i \in 1..Len(UpperChars) : c = CharAt(UpperChars, i) \/ c = CharAt(LowerChars, i)

\* .replace(/\\/g, '/')
RECURSIVE SlashAll(_)
SlashAll(s) ==
  IF Len(s) = 0 THEN s
  ELSE (IF CharAt(s, 1) = "\\" THEN "/" ELSE CharAt(s, 1)) \o SlashAll(SubSeq(s, 2, Len(s)))

\* .replace(/^([A-Z]):/i, '/$1')
DrivePrefix(s) ==
  IF Len(s) >= 2 /\ IsAsciiLetter(CharAt(s, 1)) /\ CharAt(s, 2) = ":"
  THEN "/" \o CharAt(s, 1) \o SubSeq(s, 3, Len(s))
  ELSE s

\* .replace(/^\/[A-Z]/i, match => match.toLowerCase())
LowerFirstLetter(s) ==
  IF Len(s) >= 2 /\ CharAt(s, 1) = "/" /\ IsAsciiLetter(CharAt(s, 2))
  THEN "/" \o LowerChar(CharAt(s, 2)) \o SubSeq(s, 3, Len(s))
  ELSE s

\* the translation without its last replace
windowsToPosixKeepCase(windowsPath) == DrivePrefix(SlashAll(windowsPath))

windowsToPosix(windowsPath) == LowerFirstLetter(DrivePrefix(SlashAll(windowsPath)))

Min(a, b) == IF a <= b THEN a ELSE b

RECURSIVE Pow2(_)
Pow2(n) == IF n <= 0 THEN 1 ELSE 2 * Pow2(n - 1)

\* the backoff without its cap
calculateBackoffUncapped(attempt, baseMs, maxMs) == baseMs * Pow2(attempt - 1)

\* calculateBackoff, for attempt >= 1 (the only attempts the supervisor makes)
calculateBackoff(attempt, baseMs, maxMs) == Min(baseMs * Pow2(attempt - 1), maxMs)

(***************************************************************************)
(* isNetworkError                                                          *)
(* An error is [isNull, code, message]; isNull stands for a thrown null or *)
(* undefined, code/message "" for an absent field.                         *)
(***************************************************************************)
networkErrorCodes ==
  {"ENOTFOUND", "ETIMEDOUT", "ECONNREFUSED", "ECONNRESET",
   "ENETUNREACH", "EAI_AGAIN", "EHOSTUNREACH", "EPIPE"}

networkErrorMessages ==
  {"network", "fetch failed", "socket hang up", "ENOTFOUND",
   "ETIMEDOUT", "getaddrinfo", "connect ECONNREFUSED"}

isNetworkError(err) ==
  IF err.isNull THEN FALSE
  ELSE IF err.code # "" /\ err.code \in networkErrorCodes THEN TRUE
  ELSE \E pattern \in networkErrorMessages :
         Includes(ToLowerCase(err.message), ToLowerCase(pattern))

NullError == [isNull |-> TRUE, code |-> "", message |-> ""]

\* the values the host entry point is taken to throw
Errors ==
  { NullError,
    [isNull |-> FALSE, code |-> "ENOTFOUND", message |-> "getaddrinfo ENOTFOUND api.anthropic.com"],
    [isNull |-> FALSE, code |-> "EPIPE", message |-> ""],
    [isNull |-> FALSE, code |-> "", message |-> "Fetch Failed"],
    [isNull |-> FALSE, code |-> "EPERM", message |-> "operation not permitted"],
    [isNull |-> FALSE, code |-> "", message |-> "boom"],
    [isNull |-> FALSE, code |-> "", message |-> ""] }

\* isNetworkError on the errors above, evaluated once
IsNetworkErrorOf == [e \in Errors |-> isNetworkError(e)]


(***************************************************************************)
(* blocklist.js: validateCommand                                           *)
(* A regular expression is modelled by the set of strings it matches: a    *)
(* literal by At, x.*y by two positions with no line terminator between,   *)
(* the i flag by matching the lower-cased command.                         *)
(***************************************************************************)
At(s, i, lit) ==
  /\ i >= 1
  /\ i + Len(lit) - 1 <= Len(s)
  /\ SubSeq(s, i, i + Len(lit) - 1) = lit

LineTerminators == {"\n", "\r"}
WhiteSpace == {" ", "\t", "\n", "\r", "\f"}
Digits == {"0", "1", "2", "3", "4", "5", "6", "7", "8", "9"}

IsLetter(c) == \E i \in 1..Len(UpperChars) : c = CharAt(UpperChars, i) \/ c = CharAt(LowerChars, i)
IsAlnum(c) == IsLetter(c) \/ c \in Digits

\* every character of s[a..b] is matched by "."
DotRun(s, a, b) == \A k \in a..b : CharAt(s, k) \notin LineTerminators

\* lit1 .* lit2
ThenLater(s, lit1, lit2) ==
  \E i \in 1..Len(s) :
    /\ At(s, i, lit1)
    /\ \E j \in (i + Len(lit1))..Len(s) :
         At(s, j, lit2) /\ DotRun(s, i + Len(lit1), j - 1)

\* lit \s+ \d+
ThenNumber(s, lit) ==
  \E i \in 1..Len(s) :
    /\ At(s, i, lit)
    /\ \E j \in (i + Len(lit) + 1)..Len(s) :
         /\ \A k \in (i + Len(lit))..(j - 1) : CharAt(s, k) \in WhiteSpace
         /\ CharAt(s, j) \in Digits

QuoteCount(s) == Cardinality({i \in 1..Len(s) : CharAt(s, i) = "'"})

\* cygpathRules without the nested-quotes rule
NestedQuotesNever(s) == FALSE

\* /'[^']*'[^']*'/ : three single quotes, nothing but non-quotes between them
NestedQuotes(s) ==
  \E i \in 1..Len(s) :
    /\ CharAt(s, i) = "'"
    /\ \E j \in (i + 1)..Len(s) :
         /\ CharAt(s, j) = "'"
         /\ \E k \in (j + 1)..Len(s) :
              /\ CharAt(s, k) = "'"
              /\ \A m \in (i + 1)..(k - 1) : m = j \/ CharAt(s, m) # "'"

\* the backtick, which a TLA+ string cannot hold, is written ~ in a command
Backtick == "~"

\* shell-expansion: "$(", a backtick, or a backslash followed by n or by r
ShellExpansion(s) ==
  Includes(s, "$(") \/ Includes(s, Backtick) \/ Includes(s, "\\n") \/ Includes(s, "\\r")

\* /\\\\\\\\[A-Za-z0-9]|\/\/[A-Za-z0-9]+\/[A-Za-z0-9]/
UncPath(s) ==
  \/ \E i \in 1..Len(s) : At(s, i, "\\\\\\\\") /\ i + 4 <= Len(s) /\ IsAlnum(CharAt(s, i + 4))
  \/ \E i \in 1..Len(s) :
       /\ At(s, i, "//")
       /\ \E j \in (i + 3)..(Len(s) - 1) :
            /\ \A k \in (i + 2)..(j - 1) : IsAlnum(CharAt(s, k))
            /\ CharAt(s, j) = "/"
            /\ IsAlnum(CharAt(s, j + 1))

\* cygpathRules: the pattern of each rule, by name, and the rules in order
CrashPattern(name, s) ==
  CASE name = "nested-quotes" -> NestedQuotes(s)
    [] name = "shell-expansion" -> ShellExpansion(s)
    [] name = "unc-path" -> UncPath(s)

cygpathRules ==
  << [name |-> "nested-quotes",
      reason |-> "Path contains nested quotes (cygpath crash risk) - use Read/Glob tools instead"],
     [name |-> "shell-expansion",
      reason |-> "Path contains shell expansion (cygpath crash risk) - use Read/Glob tools instead"],
     [name |-> "unc-path",
      reason |-> "UNC network path detected (cygpath crash risk) - map drive first or use local path"] >>

\* safetyRules: detect and unless of each rule, by name (both carry the i flag)
FileExtensions ==
  {".json", ".md", ".txt", ".sh", ".toml", ".xml", ".cs", ".js", ".ts", ".py"}

Detect(name, s) ==
  LET l == ToLowerCase(s) IN
  CASE name = "dir-recursive" -> ThenLater(l, "dir", "/s")
    [] name = "find-no-maxdepth" ->
         \/ ThenLater(l, "find", "users/")
         \/ ThenLater(l, "find", "/c/users")
         \/ ThenLater(l, "find", ".claude")
         \/ \E i \in 1..Len(l) :
              /\ At(l, i, "find")
              /\ \E j \in (i + 4)..Len(l) :
                   /\ At(l, j, "/home/")
                   /\ DotRun(l, i + 4, j - 1)
                   /\ \E k \in (j + 7)..Len(l) :
                        /\ CharAt(l, k) = "/"
                        /\ \A m \in (j + 6)..(k - 1) : CharAt(l, m) # "/"
    [] name = "tree-no-depth" ->
         \/ ThenLater(l, "tree", "users/")
         \/ ThenLater(l, "tree", ".claude")
         \/ ThenLater(l, "tree", "/c/users")
         \/ ThenLater(l, "tree", "/home")
    [] name = "git-all-no-limit" ->
         \E verb \in {"log", "diff", "show"} :
           \E i \in 1..Len(l) :
             /\ At(l, i, "git")
             /\ \E j \in (i + 4)..Len(l) :
                  /\ \A k \in (i + 3)..(j - 1) : CharAt(l, k) \in WhiteSpace
                  /\ At(l, j, verb)
                  /\ \E m \in (j + Len(verb))..Len(l) :
                       At(l, m, "--all") /\ DotRun(l, j + Len(verb), m - 1)

Unless(name, s) ==
  LET l == ToLowerCase(s) IN
  CASE name = "dir-recursive" ->
         Includes(l, "*.") \/ \E ext \in FileExtensions : Includes(l, ext)
    [] name = "find-no-maxdepth" -> Includes(l, "-maxdepth") \/ Includes(l, "timeout")
    [] name = "tree-no-depth" -> ThenNumber(l, "-l") \/ Includes(l, "-l")
    [] name = "git-all-no-limit" -> ThenNumber(l, "-n") \/ Includes(l, "--max-count")

safetyRules ==
  << [name |-> "dir-recursive",
      reason |-> "dir /s without file pattern - use dir \"path\\*.ext\" /s or Glob tool"],
     [name |-> "find-no-maxdepth",
      reason |-> "find on user directory without -maxdepth - add -maxdepth N or use Glob tool"],
     [name |-> "tree-no-depth",
      reason |-> "tree without depth limit - add -L N or use ls"],
     [name |-> "git-all-no-limit",
      reason |-> "git --all without limit - add -n N or --max-count=N"] >>

maxPathLength == 260

\* a match of /[A-Za-z]:\\[^ ]+|\/[^ ]+/g starting at i: its length (it runs
\* to the next space or the end), or 0 when none starts there
PathStartsAt(s, i) ==
  \/ /\ IsLetter(CharAt(s, i)) /\ At(s, i + 1, ":\\")
     /\ i + 3 <= Len(s) /\ CharAt(s, i + 3) # " "
  \/ /\ CharAt(s, i) = "/"
     /\ i + 1 <= Len(s) /\ CharAt(s, i + 1) # " "

RunEnd(s, i) ==
  IF \E k \in i..Len(s) : CharAt(s, k) = " "
  THEN (CHOOSE k \in i..Len(s) : CharAt(s, k) = " " /\ \A m \in i..(k - 1) : CharAt(s, m) # " ") - 1
  ELSE Len(s)

\* the matches of the global scan, as (start, end) pairs: in each run of
\* non-space characters the leftmost start wins and the match takes the rest
\* of the run (a drive-letter start that fails leaves the "/" starts after it)
PathMatches(s) ==
  {<<i, RunEnd(s, i)>> : i \in
     {i \in 1..Len(s) :
        /\ PathStartsAt(s, i)
        /\ \A k \in 1..(i - 1) : ~(PathStartsAt(s, k) /\ RunEnd(s, k) >= i)}}

PathTooLong(s) == \E m \in PathMatches(s) : m[2] - m[1] + 1 > maxPathLength

Allowed == [allowed |-> TRUE, reason |-> ""]
Denied(why) == [allowed |-> FALSE, reason |-> why]

\* the first rule of a list that fires, or 0
FirstCrashRule(s) ==
  IF \E r \in 1..Len(cygpathRules) : CrashPattern(cygpathRules[r].name, s)
  THEN CHOOSE r \in 1..Len(cygpathRules) :
         /\ CrashPattern(cygpathRules[r].name, s)
         /\ \A q \in 1..(r - 1) : ~CrashPattern(cygpathRules[q].name, s)
  ELSE 0

\* a hang rule that ignores its exemption
HangRuleFiresAnyway(name, s) == Detect(name, s)

\* rule.detect.test(command) && !rule.unless.test(command)
HangRuleFires(name, s) == Detect(name, s) /\ ~Unless(name, s)

\* FirstHangRule that looks no further than the first rule whose detect matches
FirstHangRuleStopsAtDetect(s) ==
  IF \E r \in 1..Len(safetyRules) : Detect(safetyRules[r].name, s)
  THEN LET first == CHOOSE r \in 1..Len(safetyRules) :
                      /\ Detect(safetyRules[r].name, s)
                      /\ \A q \in 1..(r - 1) : ~Detect(safetyRules[q].name, s)
       IN IF Unless(safetyRules[first].name, s) THEN 0 ELSE first
  ELSE 0

FirstHangRule(s) ==
  IF \E r \in 1..Len(safetyRules) : HangRuleFires(safetyRules[r].name, s)
  THEN CHOOSE r \in 1..Len(safetyRules) :
         /\ HangRuleFires(safetyRules[r].name, s)
         /\ \A q \in 1..(r - 1) : ~HangRuleFires(safetyRules[q].name, s)
  ELSE 0

\* validateCommand with the hang rules consulted before the crash checks
validateCommandHangFirst(command) ==
  IF command = "" THEN Allowed
  ELSE IF FirstHangRule(command) # 0
  THEN Denied(safetyRules[FirstHangRule(command)].reason)
  ELSE IF QuoteCount(command) % 2 # 0
  THEN Denied("Command has unbalanced quotes (cygpath crash risk) - ensure quotes are paired")
  ELSE IF FirstCrashRule(command) # 0
  THEN Denied(cygpathRules[FirstCrashRule(command)].reason)
  ELSE IF PathTooLong(command)
  THEN Denied("Path exceeds 260 characters (cygpath crash risk) - use shorter paths")
  ELSE Allowed

\* validateCommand on a string ("" is the falsy command)
validateCommand(command) ==
  IF command = "" THEN Allowed
  ELSE IF QuoteCount(command) % 2 # 0
  THEN Denied("Command has unbalanced quotes (cygpath crash risk) - ensure quotes are paired")
  ELSE IF FirstCrashRule(command) # 0
  THEN Denied(cygpathRules[FirstCrashRule(command)].reason)
  ELSE IF PathTooLong(command)
  THEN Denied("Path exceeds 260 characters (cygpath crash risk) - use shorter paths")
  ELSE IF FirstHangRule(command) # 0
  THEN Denied(safetyRules[FirstHangRule(command)].reason)
  ELSE Allowed

\* validateCommand on any value: typeof command !== 'string' is allowed
\* (value is a [t, s, members] record, t the typeof tag, s the string)
validateAny(value) ==
  IF value.t # "string" THEN Allowed ELSE validateCommand(value.s)

(***************************************************************************)
(* State                                                                   *)
(***************************************************************************)
VARIABLES
  pc,                 \* where runWithAutoRestart stands (see PcValues)
  exitCode,           \* NoExit while the process lives, else the status given to process.exit
  crashRestartCount,  \* runner.js:325
  lastCrashTime,      \* runner.js:326
  networkRetryCount,  \* runner.js:327
  backoffMs,          \* the wait computed in waitForConnectivity (runner.js:546)
  clock,              \* Date.now()
  diagnostic,         \* which give-up message was printed: "none", "network", "crash"
  exitTimer,          \* a setTimeout(() => process.exit(0), 100) is pending
  childProcesses,     \* the tracked set (runner.js:268), as the set of child ids in it
  child,              \* child id -> the subprocess created for it
  nextChild,          \* the number of subprocess objects created so far
  gitBashPath,        \* runner.js:340, set by main() before the hooks: "" when not found
  hist                \* history of the run, read only by the properties

vars == <<pc, exitCode, crashRestartCount, lastCrashTime, networkRetryCount,
          backoffMs, clock, diagnostic, exitTimer, childProcesses, child,
          nextChild, gitBashPath, hist>>

supVars == <<crashRestartCount, lastCrashTime, networkRetryCount>>

NoExit == -1

PcValues == {"running", "backoff", "probing", "crashDelay", "completed", "stopped", "rejected"}

Alive == exitCode = NoExit

ChildIds == 1..MaxChildren

\* a subprocess object: kind "none" (not created yet), "real" (returned by the
\* original spawn), "blocked" or "hook" (synthetic); pid 0 is a missing pid;
\* notified: an exit or error event of it was delivered
NoChild ==
  [ kind      |-> "none",
    pid       |-> 0,
    notified  |-> FALSE,
    reason    |-> "",     \* blocked: the reason given to createBlockedChildProcess
    stage     |-> "none", \* synthetic: "pending" (blocked, nextTick queued), "open"
                          \* (hook, stdin not ended), "ended" (hook, nextTick queued),
                          \* "ticked" (the nextTick callback has run)
    stdinData |-> "",     \* hook: what stdin.write / stdin.end have accumulated
    notifyThrows |-> FALSE, \* hook: notifier.notify threw during the handler's call
    response  |-> "",     \* hook: what the handler returned to stdin.end
    notes     |-> <<>>,   \* hook: the notifications the handler dispatched
    listening |-> FALSE,  \* the caller has attached its listeners
    early     |-> FALSE,  \* ... and did so before the nextTick callback ran
    emitted   |-> <<>>,   \* the events emitted so far, in order
    seen      |-> <<>> ]  \* the events the caller's listeners received, in order

SupervisorPid == 1000
RealPid(c) == 100 + c

GitBash == "C:/Program Files/Git/usr/bin/bash.exe"


\* a call of a wrapped kill: hook is "process" or "child", outcome what the
\* original did, taskkill whether the fallback command was run, how / value
\* what the caller got ("returned" a value or "thrown" an error code)
KillCall(hook, pid, outcome, taskkill, how, value) ==
  [hook |-> hook, pid |-> pid, outcome |-> outcome, taskkill |-> taskkill,
   how |-> how, value |-> value]

NoKill == KillCall("none", 0, "", FALSE, "", "")

\* a call of an exported pure function, as the caller sees it
Call(fn, input, output) == [fn |-> fn, input |-> input, output |-> output]
NoCall == Call("none", "", "")

\* no spawn request seen yet
NoSpawn ==
  [request |-> [command |-> "", args |-> <<>>], options |-> "",
   original |-> [called |-> FALSE, command |-> "", args |-> <<>>, options |-> ""],
   returned |-> 0]

InitHist ==
  [ runs         |-> 1,      \* times the host entry point was started
    netFailures  |-> 0,      \* host failures classified as network
    genFailures  |-> 0,      \* host failures classified as generic
    nullThrown   |-> FALSE,  \* the host threw null / undefined at least once
    firstCrash   |-> 0,      \* time of the first generic crash of the process
    firstCounted |-> 0,      \* time of the first crash counted since the last reset
    allClose     |-> TRUE,   \* every generic crash was within the window of the first one
    allSpaced    |-> TRUE,   \* every generic crash was more than a window after the previous
    prevCrash    |-> 0,      \* time of the latest generic crash
    crashRestarts|-> 0,      \* restarts made after a post-crash delay
    probes       |-> 0,      \* probes started in the current network episode
    failedProbes |-> 0,      \* probes of the current episode that failed
    okProbes     |-> 0,      \* probes that succeeded, over the whole run
    lastProbe    |-> "none", \* result of the latest probe of the current episode
    waited       |-> 0,      \* the wait that elapsed before the latest probe
    killed       |-> {},     \* child ids a taskkill was issued for
    tracked      |-> {},     \* child ids that were ever in the tracked set
    lastKill     |-> NoKill, \* the latest call of a wrapped kill and how it went
    lastCall     |-> NoCall, \* the latest call of an exported function: name, input, output
    lastSpawn    |-> NoSpawn ] \* the latest spawn request, the original call made for it, the child returned

Init ==
  /\ pc = "running"
  /\ exitCode = NoExit
  /\ crashRestartCount = 0
  /\ lastCrashTime = 0
  /\ networkRetryCount = 0
  /\ backoffMs = 0
  /\ clock = StartTime
  /\ diagnostic = "none"
  /\ exitTimer = FALSE
  /\ childProcesses = {}
  /\ child = [c \in ChildIds |-> NoChild]
  /\ nextChild = 0
  /\ gitBashPath \in {"", GitBash}
  /\ hist = InitHist


(***************************************************************************)
(* The supervisor: runWithAutoRestart and waitForConnectivity              *)
(***************************************************************************)

\* await import(cliPath) at the top of the loop: the host entry point runs
StartHost ==
  /\ pc' = "running"
  /\ UNCHANGED <<exitCode, diagnostic>>

\* process.exit(1) after a give-up message
GiveUp(which) ==
  /\ diagnostic' = which
  /\ exitCode' = 1
  /\ pc' = "stopped"

\* NextRetry that gives up one probe early
NextRetryStopsEarly(n) ==
  IF n < MAX_NETWORK_RETRIES - 1
  THEN /\ networkRetryCount' = n + 1
       /\ backoffMs' = calculateBackoff(n + 1, NETWORK_BACKOFF_BASE_MS, NETWORK_BACKOFF_MAX_MS)
       /\ pc' = "backoff"
       /\ UNCHANGED <<exitCode, diagnostic>>
  ELSE /\ networkRetryCount' = n
       /\ GiveUp("network")
       /\ UNCHANGED backoffMs

\* NextRetry with the loop test off by one (<= for <)
NextRetryOneMore(n) ==
  IF n <= MAX_NETWORK_RETRIES
  THEN /\ networkRetryCount' = n + 1
       /\ backoffMs' = calculateBackoff(n + 1, NETWORK_BACKOFF_BASE_MS, NETWORK_BACKOFF_MAX_MS)
       /\ pc' = "backoff"
       /\ UNCHANGED <<exitCode, diagnostic>>
  ELSE /\ networkRetryCount' = n
       /\ GiveUp("network")
       /\ UNCHANGED backoffMs

\* the while loop of waitForConnectivity, entered with networkRetryCount = n:
\* one more wait, or return false and let the caller stop the process
NextRetry(n) ==
  IF n < MAX_NETWORK_RETRIES
  THEN /\ networkRetryCount' = n + 1
       /\ backoffMs' = calculateBackoff(n + 1, NETWORK_BACKOFF_BASE_MS, NETWORK_BACKOFF_MAX_MS)
       /\ pc' = "backoff"
       /\ UNCHANGED <<exitCode, diagnostic>>
  ELSE /\ networkRetryCount' = n
       /\ GiveUp("network")
       /\ UNCHANGED backoffMs

\* NetworkFailure falling through to the crash bookkeeping
NetworkFailureCounted(now) ==
  /\ NextRetry(0)
  /\ crashRestartCount' = crashRestartCount + 1
  /\ lastCrashTime' = now

\* catch branch for a network error: waitForConnectivity() up to its first await
NetworkFailure(now) ==
  /\ NextRetry(0)
  /\ UNCHANGED <<crashRestartCount, lastCrashTime>>

\* CountCrash counting every crash twice
CountCrashTwice(now) ==
  (IF now - lastCrashTime > CRASH_WINDOW_MS THEN 0 ELSE crashRestartCount) + 2

\* CountCrash without the window check
CountCrashNoReset(now) == crashRestartCount + 1

\* the crash counter after the window check and the increment (runner.js:600-604)
CountCrash(now) ==
  (IF now - lastCrashTime > CRASH_WINDOW_MS THEN 0 ELSE crashRestartCount) + 1

\* CrashLimitReached with > for >=
CrashLimitReachedLate(count) == count > MAX_CRASH_RESTARTS

CrashLimitReached(count) == count >= MAX_CRASH_RESTARTS

\* catch branch for any other error.  Reading err.message of a thrown null
\* or undefined (runner.js:611) raises a TypeError inside the catch block:
\* the loop is left, main() rejects and process.exit(1) is not reached.
GenericCrash(err, now) ==
  /\ crashRestartCount' = CountCrash(now)
  /\ lastCrashTime' = now
  /\ IF CrashLimitReached(CountCrash(now))
     THEN IF err.isNull
          THEN /\ diagnostic' = "crash"
               /\ pc' = "rejected"
               /\ UNCHANGED exitCode
          ELSE GiveUp("crash")
     ELSE /\ pc' = "crashDelay"
          /\ UNCHANGED <<exitCode, diagnostic>>
  /\ UNCHANGED <<networkRetryCount, backoffMs>>

\* the host entry point throws err after running for d ms
HostThrows(err, d) ==
  /\ Alive
  /\ pc = "running"
  /\ clock' = clock + d
  /\ IF IsNetworkErrorOf[err]
     THEN /\ NetworkFailure(clock')
          /\ hist' = [hist EXCEPT !.netFailures = @ + 1, !.probes = 0,
                                  !.failedProbes = 0, !.lastProbe = "none"]
     ELSE /\ GenericCrash(err, clock')
          /\ hist' = [hist EXCEPT
                !.genFailures = @ + 1,
                !.nullThrown = @ \/ err.isNull,
                !.firstCrash = IF hist.genFailures = 0 THEN clock' ELSE @,
                !.firstCounted = IF clock' - lastCrashTime > CRASH_WINDOW_MS
                                    \/ crashRestartCount = 0 THEN clock' ELSE @,
                !.allClose = @ /\ (hist.genFailures = 0
                                   \/ clock' - hist.firstCrash <= CRASH_WINDOW_MS),
                !.allSpaced = @ /\ (hist.genFailures = 0
                                    \/ clock' - hist.prevCrash > CRASH_WINDOW_MS),
                !.prevCrash = clock']
  /\ UNCHANGED <<exitTimer, childProcesses, child, nextChild, gitBashPath>>

\* the host entry point returns: break
HostCompletes(d) ==
  /\ Alive
  /\ pc = "running"
  /\ clock' = clock + d
  /\ pc' = "completed"
  /\ UNCHANGED <<exitCode, crashRestartCount, lastCrashTime, networkRetryCount,
                 backoffMs, diagnostic, exitTimer, childProcesses, child,
                 nextChild, gitBashPath, hist>>

\* the backoff timer fires; checkConnectivity() starts its DNS lookup
BackoffElapsed ==
  /\ Alive
  /\ pc = "backoff"
  /\ clock' = clock + backoffMs
  /\ pc' = "probing"
  /\ hist' = [hist EXCEPT !.probes = @ + 1, !.waited = clock' - clock]
  /\ UNCHANGED <<exitCode, crashRestartCount, lastCrashTime, networkRetryCount,
                 backoffMs, diagnostic, exitTimer, childProcesses, child, nextChild,
                 gitBashPath>>

\* ConnectionRestored without the reset of the retry counter
ConnectionRestoredNoReset ==
  /\ StartHost
  /\ UNCHANGED <<networkRetryCount, backoffMs>>

\* checkConnectivity() returned true: reset the counter, return true, continue
ConnectionRestored ==
  /\ networkRetryCount' = 0
  /\ StartHost
  /\ UNCHANGED backoffMs

\* the DNS lookup settles
ProbeResult(connected) ==
  /\ Alive
  /\ pc = "probing"
  /\ IF connected
     THEN /\ ConnectionRestored
          /\ hist' = [hist EXCEPT !.okProbes = @ + 1, !.lastProbe = "ok",
                                  !.runs = @ + 1]
     ELSE /\ NextRetry(networkRetryCount)
          /\ hist' = [hist EXCEPT !.failedProbes = @ + 1, !.lastProbe = "fail"]
  /\ UNCHANGED <<crashRestartCount, lastCrashTime, clock, exitTimer,
                 childProcesses, child, nextChild, gitBashPath>>

\* the 1000 ms timer after a counted crash fires: next iteration of the loop
CrashDelayElapsed ==
  /\ Alive
  /\ pc = "crashDelay"
  /\ clock' = clock + RESTART_DELAY_MS
  /\ StartHost
  /\ hist' = [hist EXCEPT !.runs = @ + 1, !.crashRestarts = @ + 1]
  /\ UNCHANGED <<crashRestartCount, lastCrashTime, networkRetryCount, backoffMs,
                 exitTimer, childProcesses, child, nextChild, gitBashPath>>

(***************************************************************************)
(* Hook 3: child_process.spawn                                             *)
(***************************************************************************)
Marker == "__RUNNER_PERMISSION_HOOK__"

\* the calls of spawn(command, args) the host program is taken to make
SpawnRequests ==
  { [command |-> "node -e \"__RUNNER_PERMISSION_HOOK__\"", args |-> <<>>],
    [command |-> "node", args |-> <<"-e", "__RUNNER_PERMISSION_HOOK__">>],
    [command |-> "bash", args |-> <<"-c", "echo __RUNNER_PERMISSION_HOOK__">>],
    [command |-> "/bin/bash", args |-> <<"-c", "ls -la">>],
    [command |-> "/bin/bash", args |-> <<"-c", "git log --all">>],
    [command |-> "/bin/bash", args |-> <<"-l">>],
    [command |-> "/bin/bash", args |-> <<"-l", "-c", "git log --all">>],
    [command |-> "cmd.exe", args |-> <<"/c", "ver">>] }

\* SpawnDecision that looks for the marker in the command only
SpawnDecisionCommandOnly(command, args, bashPath) ==
  IF Includes(command, Marker)
  THEN [kind |-> "hook", command |-> "", reason |-> ""]
  ELSE [kind |-> "real", command |-> command, reason |-> ""]

\* SpawnDecision that validates a /bin/bash -c command whether or not a Git
\* Bash path was found
SpawnDecisionValidatesAlways(command, args, bashPath) ==
  IF Includes(command, Marker)
  THEN [kind |-> "hook", command |-> "", reason |-> ""]
  ELSE IF command = "node" /\ \E i \in 1..Len(args) : Includes(args[i], Marker)
  THEN [kind |-> "hook", command |-> "", reason |-> ""]
  ELSE IF command = "/bin/bash"
  THEN IF /\ Len(args) >= 2 /\ args[1] = "-c" /\ args[2] # ""
          /\ ~validateCommand(args[2]).allowed
       THEN [kind |-> "blocked", command |-> "", reason |-> validateCommand(args[2]).reason]
       ELSE [kind |-> "real", command |-> IF bashPath # "" THEN bashPath ELSE command,
             reason |-> ""]
  ELSE [kind |-> "real", command |-> command, reason |-> ""]

\* SpawnDecision that leaves the command of a /bin/bash request as it is
SpawnDecisionUntranslated(command, args, bashPath) ==
  IF Includes(command, Marker)
  THEN [kind |-> "hook", command |-> "", reason |-> ""]
  ELSE IF command = "node" /\ \E i \in 1..Len(args) : Includes(args[i], Marker)
  THEN [kind |-> "hook", command |-> "", reason |-> ""]
  ELSE IF /\ command = "/bin/bash" /\ bashPath # ""
          /\ Len(args) >= 2 /\ args[1] = "-c" /\ args[2] # ""
          /\ ~validateCommand(args[2]).allowed
  THEN [kind |-> "blocked", command |-> "", reason |-> validateCommand(args[2]).reason]
  ELSE [kind |-> "real", command |-> command, reason |-> ""]

\* what spawnHook does with a request before any subprocess exists: answer
\* with a synthetic subprocess, or call the original spawn with a command
SpawnDecision(command, args, bashPath) ==
  IF Includes(command, Marker)
  THEN [kind |-> "hook", command |-> "", reason |-> ""]
  ELSE IF command = "node" /\ \E i \in 1..Len(args) : Includes(args[i], Marker)
  THEN [kind |-> "hook", command |-> "", reason |-> ""]
  ELSE IF command = "/bin/bash" /\ bashPath # ""
  THEN IF /\ Len(args) >= 2 /\ args[1] = "-c" /\ args[2] # ""
          /\ ~validateCommand(args[2]).allowed
       THEN [kind |-> "blocked", command |-> "", reason |-> validateCommand(args[2]).reason]
       ELSE [kind |-> "real", command |-> bashPath, reason |-> ""]
  ELSE [kind |-> "real", command |-> command, reason |-> ""]

\* SpawnDecision on the requests above, evaluated once
SpawnDecisionOf ==
  [r \in SpawnRequests, b \in {"", GitBash} |-> SpawnDecision(r.command, r.args, b)]

\* TrackChild that adds whatever the original spawn returned
TrackChildAny(c, pid) == childProcesses \cup {c}

\* TrackChild that never adds
TrackChildNever(c, pid) == childProcesses

\* the tracked set after the hook has looked at the subprocess c it got
\* from the original spawn (runner.js:812-813)
TrackChild(c, pid) == IF pid # 0 THEN childProcesses \cup {c} ELSE childProcesses

\* UntrackChild that drops every entry
UntrackChildAndRest(c) == {}

\* the tracked set after the exit / error listener of c has run
UntrackChild(c) == childProcesses \ {c}

\* the stage a subprocess is created in: createBlockedChildProcess queues its
\* nextTick callback at once (runner.js:700), createHookChildProcess waits for
\* stdin.end (runner.js:743)
SyntheticStage(kind) ==
  CASE kind = "blocked" -> "pending"
    [] kind = "hook" -> "open"
    [] OTHER -> "none"

\* the host program calls spawn(req.command, req.args).  gotPid: whether the
\* subprocess returned by the original spawn has a pid (it has none when the
\* OS could not start the program)
SpawnEffects(req, gotPid) ==
  /\ Alive
  /\ pc \in {"running", "completed"}
  /\ nextChild < MaxChildren
  /\ LET d == SpawnDecisionOf[req, gitBashPath]
         c == nextChild + 1
         pid == CASE d.kind = "hook" -> SupervisorPid
                  [] d.kind = "blocked" -> 0
                  [] d.kind = "real" -> IF gotPid THEN RealPid(c) ELSE 0
     IN /\ nextChild' = c
        /\ child' = [child EXCEPT ![c] =
                       [NoChild EXCEPT !.kind = d.kind, !.pid = pid, !.reason = d.reason,
                                       !.stage = SyntheticStage(d.kind)]]
        /\ childProcesses' = IF d.kind = "real" THEN TrackChild(c, pid) ELSE childProcesses
  /\ UNCHANGED <<pc, exitCode, crashRestartCount, lastCrashTime, networkRetryCount,
                 backoffMs, clock, diagnostic, exitTimer, gitBashPath>>

SpawnHook(req, gotPid) ==
  /\ SpawnEffects(req, gotPid)
  /\ hist' = [hist EXCEPT !.tracked = @ \cup (childProcesses' \ childProcesses)]

\* originalSpawn.call(this, command, args, options) (runner.js:809): whether
\* the hook makes the call for a request, and with which arguments
OriginalSpawn(req, options, bashPath) ==
  LET d == SpawnDecisionOf[req, bashPath] IN
  IF d.kind = "real"
  THEN [called |-> TRUE, command |-> d.command, args |-> req.args, options |-> options]
  ELSE [called |-> FALSE, command |-> "", args |-> <<>>, options |-> ""]

\* the options object a request carries
SpawnOptions == {"{}", "{cwd, stdio}"}

\* spawnHook with the call of the original spawn and the returned
\* subprocess written down
SpawnHookSeen(req, options, gotPid) ==
  /\ SpawnEffects(req, gotPid)
  /\ hist' = [hist EXCEPT !.tracked = @ \cup (childProcesses' \ childProcesses),
                          !.lastSpawn = [request |-> req, options |-> options,
                                         original |-> OriginalSpawn(req, options, gitBashPath),
                                         returned |-> nextChild']]

\* an exit or error event of a subprocess the hook has put listeners on
ChildEvent(c, ev) ==
  /\ Alive
  /\ child[c].kind = "real"
  /\ child[c].pid # 0
  /\ child' = [child EXCEPT ![c].notified = TRUE]
  /\ childProcesses' = UntrackChild(c)
  /\ UNCHANGED <<pc, exitCode, crashRestartCount, lastCrashTime, networkRetryCount,
                 backoffMs, clock, diagnostic, exitTimer, nextChild, gitBashPath, hist>>

(***************************************************************************)
(* JSON.parse, as far as the permission handler's inputs and output go:    *)
(* objects, arrays, strings with the one-letter escapes, integers and the  *)
(* three literals                                                          *)
(***************************************************************************)
JsonWs == {" ", "\t", "\n", "\r"}

RECURSIVE SkipWs(_, _)
SkipWs(s, i) == IF i <= Len(s) /\ CharAt(s, i) \in JsonWs THEN SkipWs(s, i + 1) ELSE i

\* a JavaScript value: t is its type, s the text of a string, number or
\* boolean, members the key / value pairs of an object (elements of an array)
JValue(t, s, members) == [t |-> t, s |-> s, members |-> members]
JUndefined == JValue("undefined", "", <<>>)
JNull == JValue("null", "", <<>>)
JStr(s) == JValue("string", s, <<>>)
JNum(s) == JValue("number", s, <<>>)
JBool(s) == JValue("boolean", s, <<>>)
JObj(members) == JValue("object", "", members)
JArr(members) == JValue("array", "", members)
Member(key, val) == [key |-> key, val |-> val]

\* the outcome of a parsing step: a SyntaxError, or a value and where it ends
ParseFail == [ok |-> FALSE, pos |-> 0, val |-> JUndefined]
ParseDone(pos, val) == [ok |-> TRUE, pos |-> pos, val |-> val]

Unescape(e) ==
  CASE e = "n" -> "\n"
    [] e = "t" -> "\t"
    [] e = "r" -> "\r"
    [] OTHER -> e

\* the rest of a string literal, from position i, after the text acc
RECURSIVE ParseString(_, _, _)
ParseString(s, i, acc) ==
  IF i > Len(s) THEN ParseFail
  ELSE LET c == CharAt(s, i) IN
       IF c = "\"" THEN ParseDone(i + 1, JStr(acc))
       ELSE IF c = "\\"
       THEN IF i + 1 <= Len(s) /\ CharAt(s, i + 1) \in {"\"", "\\", "/", "n", "t", "r"}
            THEN ParseString(s, i + 2, acc \o Unescape(CharAt(s, i + 1)))
            ELSE ParseFail
       ELSE IF c \in {"\n", "\t", "\r"} THEN ParseFail
       ELSE ParseString(s, i + 1, acc \o c)

\* the position after the digits that start at i
RECURSIVE DigitsEnd(_, _)
DigitsEnd(s, i) == IF i <= Len(s) /\ CharAt(s, i) \in Digits THEN DigitsEnd(s, i + 1) ELSE i

ParseNumber(s, i) ==
  LET d == IF CharAt(s, i) = "-" THEN i + 1 ELSE i
      e == DigitsEnd(s, d)
  IN IF e = d \/ (e > d + 1 /\ CharAt(s, d) = "0")
     THEN ParseFail
     ELSE ParseDone(e, JNum(SubSeq(s, i, e - 1)))

RECURSIVE ParseValue(_, _)
RECURSIVE ParseMembers(_, _, _)
RECURSIVE ParseElements(_, _, _)

ParseValue(s, i0) ==
  LET i == SkipWs(s, i0) IN
  IF i > Len(s) THEN ParseFail
  ELSE LET c == CharAt(s, i) IN
       CASE c = "\"" -> ParseString(s, i + 1, "")
         [] c = "{" -> LET j == SkipWs(s, i + 1) IN
                       IF j <= Len(s) /\ CharAt(s, j) = "}"
                       THEN ParseDone(j + 1, JObj(<<>>))
                       ELSE ParseMembers(s, j, <<>>)
         [] c = "[" -> LET j == SkipWs(s, i + 1) IN
                       IF j <= Len(s) /\ CharAt(s, j) = "]"
                       THEN ParseDone(j + 1, JArr(<<>>))
                       ELSE ParseElements(s, j, <<>>)
         [] c = "n" -> IF At(s, i, "null") THEN ParseDone(i + 4, JNull) ELSE ParseFail
         [] c = "t" -> IF At(s, i, "true") THEN ParseDone(i + 4, JBool("true")) ELSE ParseFail
         [] c = "f" -> IF At(s, i, "false") THEN ParseDone(i + 5, JBool("false")) ELSE ParseFail
         [] c = "-" \/ c \in Digits -> ParseNumber(s, i)
         [] OTHER -> ParseFail

\* "key": value pairs up to the closing brace, after the pairs acc
ParseMembers(s, i, acc) ==
  IF i > Len(s) \/ CharAt(s, i) # "\"" THEN ParseFail
  ELSE LET k == ParseString(s, i + 1, "") IN
       IF ~k.ok THEN ParseFail
       ELSE LET j == SkipWs(s, k.pos) IN
            IF j > Len(s) \/ CharAt(s, j) # ":" THEN ParseFail
            ELSE LET v == ParseValue(s, j + 1) IN
                 IF ~v.ok THEN ParseFail
                 ELSE LET n == SkipWs(s, v.pos)
                          all == Append(acc, Member(k.val.s, v.val))
                      IN IF n > Len(s) THEN ParseFail
                         ELSE IF CharAt(s, n) = "," THEN ParseMembers(s, SkipWs(s, n + 1), all)
                         ELSE IF CharAt(s, n) = "}" THEN ParseDone(n + 1, JObj(all))
                         ELSE ParseFail

\* values up to the closing bracket, after the elements acc
ParseElements(s, i, acc) ==
  LET v == ParseValue(s, i) IN
  IF ~v.ok THEN ParseFail
  ELSE LET n == SkipWs(s, v.pos)
           all == Append(acc, Member("", v.val))
       IN IF n > Len(s) THEN ParseFail
          ELSE IF CharAt(s, n) = "," THEN ParseElements(s, n + 1, all)
          ELSE IF CharAt(s, n) = "]" THEN ParseDone(n + 1, JArr(all))
          ELSE ParseFail

\* JSON.parse(text): ok is FALSE when it throws a SyntaxError
JSONParse(text) ==
  LET r == ParseValue(text, 1) IN
  IF r.ok /\ SkipWs(text, r.pos) = Len(text) + 1 THEN r ELSE ParseFail

\* value.key of a parsed value: the last member with that key of an object,
\* undefined for a missing key and for the other types read here
RECURSIVE GetFrom(_, _, _)
GetFrom(members, key, n) ==
  IF n = 0 THEN JUndefined
  ELSE IF members[n].key = key THEN members[n].val
  ELSE GetFrom(members, key, n - 1)

Get(value, key) ==
  IF value.t = "object" THEN GetFrom(value.members, key, Len(value.members))
  ELSE JUndefined

\* ToBoolean(value)
Truthy(value) ==
  CASE value.t \in {"undefined", "null"} -> FALSE
    [] value.t = "string" -> value.s # ""
    [] value.t = "number" -> value.s \notin {"0", "-0"}
    [] value.t = "boolean" -> value.s = "true"
    [] OTHER -> TRUE

(***************************************************************************)
(* JSON.stringify and path.basename                                        *)
(***************************************************************************)
\* the text of a string between its quotes
RECURSIVE Escaped(_)
Escaped(s) ==
  IF s = "" THEN ""
  ELSE LET c == CharAt(s, 1) IN
       (CASE c \in {"\"", "\\"} -> "\\" \o c
          [] c = "\n" -> "\\n"
          [] c = "\t" -> "\\t"
          [] c = "\r" -> "\\r"
          [] OTHER -> c) \o Escaped(SubSeq(s, 2, Len(s)))

RECURSIVE JSONStringify(_)
RECURSIVE StringifyMembers(_, _, _)

\* the members from the n-th on, comma separated; keys are written for objects
StringifyMembers(members, n, withKeys) ==
  IF n > Len(members) THEN ""
  ELSE (IF n > 1 THEN "," ELSE "")
       \o (IF withKeys THEN "\"" \o Escaped(members[n].key) \o "\":" ELSE "")
       \o JSONStringify(members[n].val)
       \o StringifyMembers(members, n + 1, withKeys)

JSONStringify(value) ==
  CASE value.t = "string" -> "\"" \o Escaped(value.s) \o "\""
    [] value.t \in {"number", "boolean"} -> value.s
    [] value.t = "object" -> "{" \o StringifyMembers(value.members, 1, TRUE) \o "}"
    [] value.t = "array" -> "[" \o StringifyMembers(value.members, 1, FALSE) \o "]"
    [] OTHER -> "null"

PathSeparators == {"/", "\\"}

\* the position of the last character of p[1..n] that is no separator, or 0
RECURSIVE TrimEnd(_, _)
TrimEnd(p, n) ==
  IF n >= 1 /\ CharAt(p, n) \in PathSeparators THEN TrimEnd(p, n - 1) ELSE n

\* the position before the last segment of p[1..n]
RECURSIVE SegmentStart(_, _)
SegmentStart(p, n) ==
  IF n >= 1 /\ CharAt(p, n) \notin PathSeparators THEN SegmentStart(p, n - 1) ELSE n

\* path.basename(p) of the win32 flavour, for a string p: the drive prefix
\* is no part of the name
basename(p) ==
  LET rest == IF Len(p) >= 2 /\ IsLetter(CharAt(p, 1)) /\ CharAt(p, 2) = ":"
              THEN SubSeq(p, 3, Len(p)) ELSE p
      e == TrimEnd(rest, Len(rest))
  IN SubSeq(rest, SegmentStart(rest, e) + 1, e)

(***************************************************************************)
(* handlePermissionRequest                                                 *)
(***************************************************************************)
excludedTools == {"AskUserQuestion", "ExitPlanMode"}

\* the object literal of runner.js:220-225 and 229-234
AllowDecision ==
  JObj(<< Member("hookSpecificOutput",
            JObj(<< Member("hookEventName", JStr("PermissionRequest")),
                    Member("decision", JObj(<< Member("behavior", JStr("allow")) >>)) >>)) >>)

\* what the handler hands back: its return value and the notifications that
\* notifier.notify accepted
Handled(result, notes) == [result |-> result, notes |-> notes]

FailOpen == Handled(JSONStringify(AllowDecision), <<>>)

\* the argument of notifier.notify (runner.js:198-212)
Notification(projectFolder, toolName) ==
  [ title |-> projectFolder \o " - Input Required",
    message |-> IF toolName = "AskUserQuestion" THEN "Claude is asking a question"
                ELSE IF toolName = "ExitPlanMode" THEN "Plan ready for review"
                ELSE toolName \o " needs approval" ]

\* the branch for an excluded tool (runner.js:193-216).  path.basename throws
\* a TypeError for an argument that is no string, and notifier.notify may
\* throw: both land in the catch block
ExcludedTool(request, toolName, notifyThrows) ==
  LET cwd == Get(request, "cwd") IN
  IF Truthy(cwd) /\ cwd.t # "string" THEN FailOpen
  ELSE IF notifyThrows THEN FailOpen
  ELSE Handled("", << Notification(IF Truthy(cwd) THEN basename(cwd.s) ELSE "Unknown",
                                   toolName) >>)

\* handlePermissionRequest mistaking every tool for an excluded one
handlePermissionRequestAsksAll(jsonInput, notifyThrows) ==
  LET parsed == JSONParse(jsonInput) IN
  IF ~parsed.ok \/ parsed.val.t = "null" THEN FailOpen
  ELSE ExcludedTool(parsed.val, "", notifyThrows)

\* handlePermissionRequest answering a SyntaxError with the passthrough
handlePermissionRequestFailsClosed(jsonInput, notifyThrows) ==
  LET parsed == JSONParse(jsonInput) IN
  IF ~parsed.ok THEN Handled("", <<>>)
  ELSE FailOpen

\* handlePermissionRequest(jsonInput); notifyThrows: notifier.notify throws.
\* Reading a property of null throws a TypeError, caught like a SyntaxError
handlePermissionRequest(jsonInput, notifyThrows) ==
  LET parsed == JSONParse(jsonInput) IN
  IF ~parsed.ok \/ parsed.val.t = "null" THEN FailOpen
  ELSE LET toolName == Get(parsed.val, "tool_name") IN
       IF toolName.t = "string" /\ toolName.s \in excludedTools
       THEN ExcludedTool(parsed.val, toolName.s, notifyThrows)
       ELSE FailOpen

(***************************************************************************)
(* Synthetic subprocesses: createBlockedChildProcess, createHookChildProcess *)
(***************************************************************************)
NoCode == -1

\* emitter.emit(event, arg): on is "child", "stdout" or "stderr"
Emit(on, event, data, code) == [on |-> on, event |-> event, data |-> data, code |-> code]

\* BlockedEvents with the data event after the close events
BlockedEventsDataLast(reason) ==
  << Emit("stdout", "close", "", NoCode),
     Emit("stderr", "close", "", NoCode),
     Emit("child", "close", "", 1),
     Emit("stderr", "data", "[blocked] " \o reason \o "\n", NoCode) >>

\* what the nextTick callback of a blocked subprocess emits (runner.js:701-704)
BlockedEvents(reason) ==
  << Emit("stderr", "data", "[blocked] " \o reason \o "\n", NoCode),
     Emit("stdout", "close", "", NoCode),
     Emit("stderr", "close", "", NoCode),
     Emit("child", "close", "", 1) >>

\* the caller attaches its data and close listeners to a synthetic subprocess;
\* it does so in the turn that created it or in any later turn
AttachListeners(c) ==
  /\ Alive
  /\ child[c].kind \in {"blocked", "hook"}
  /\ ~child[c].listening
  /\ child' = [child EXCEPT ![c].listening = TRUE,
                            ![c].early = child[c].stage # "ticked"]
  /\ UNCHANGED <<pc, exitCode, crashRestartCount, lastCrashTime, networkRetryCount,
                 backoffMs, clock, diagnostic, exitTimer, childProcesses, nextChild,
                 gitBashPath, hist>>

\* the nextTick callback of a blocked subprocess runs
BlockedTick(c) ==
  /\ Alive
  /\ child[c].kind = "blocked"
  /\ child[c].stage = "pending"
  /\ child' = [child EXCEPT
       ![c].stage = "ticked",
       ![c].emitted = @ \o BlockedEvents(child[c].reason),
       ![c].seen = IF child[c].listening THEN @ \o BlockedEvents(child[c].reason) ELSE @]
  /\ UNCHANGED <<pc, exitCode, crashRestartCount, lastCrashTime, networkRetryCount,
                 backoffMs, clock, diagnostic, exitTimer, childProcesses, nextChild,
                 gitBashPath, hist>>

\* the permission requests the host program is taken to write to a hook
\* subprocess with stdin.write
PermissionInputs ==
  { "{\"tool_name\":\"Bash\",\"tool_input\":{\"command\":\"ls\"}}",
    "{\"tool_name\":\"AskUserQuestion\",\"tool_input\":{}}",
    "{\"tool_name\":\"ExitPlanMode\",\"cwd\":\"C:\\\\proj\\\\app\"}",
    "{\"tool_name\":\"AskUserQuestion\",\"cwd\":123}",
    "{\"tool_name\":\"AskUserQuestion\",\"cwd\":\"\"}",
    "{\"tool_name\":\"askuserquestion\"}",
    "{\"tool_name\":\"ExitPlanMode\"",
    "{\"tool_input\":{}}",
    "invalid json",
    "null" }

\* ... and with stdin.end
EndChunks == {"", "}"}

HookInputs == {""} \cup {w \o e : w \in PermissionInputs, e \in EndChunks} \cup EndChunks

\* handlePermissionRequest on the inputs above, evaluated once
HandledOf ==
  [i \in HookInputs, t \in BOOLEAN |-> handlePermissionRequest(i, t)]

\* HookEvents closing with status 1
HookEventsFailing(response) ==
  << Emit("stdout", "data", response, NoCode),
     Emit("stdout", "close", "", NoCode),
     Emit("stderr", "close", "", NoCode),
     Emit("child", "close", "", 1) >>

\* what the nextTick callback of a hook subprocess emits (runner.js:754-757)
HookEvents(response) ==
  << Emit("stdout", "data", response, NoCode),
     Emit("stdout", "close", "", NoCode),
     Emit("stderr", "close", "", NoCode),
     Emit("child", "close", "", 0) >>

\* child.stdin.write(chunk) of a hook subprocess; the host program writes its
\* request in one piece
StdinWrite(c, chunk) ==
  /\ Alive
  /\ child[c].kind = "hook"
  /\ child[c].stage = "open"
  /\ child[c].stdinData = ""
  /\ child' = [child EXCEPT ![c].stdinData = @ \o chunk]
  /\ UNCHANGED <<pc, exitCode, crashRestartCount, lastCrashTime, networkRetryCount,
                 backoffMs, clock, diagnostic, exitTimer, childProcesses, nextChild,
                 gitBashPath, hist>>

\* child.stdin.end(chunk) of a hook subprocess, once: the handler runs on what
\* was accumulated and the emission is queued with process.nextTick
StdinEnd(c, chunk, notifyThrows) ==
  /\ Alive
  /\ child[c].kind = "hook"
  /\ child[c].stage = "open"
  /\ LET data == child[c].stdinData \o chunk
         h == HandledOf[data, notifyThrows]
     IN child' = [child EXCEPT ![c].stdinData = data,
                               ![c].notifyThrows = notifyThrows,
                               ![c].response = h.result,
                               ![c].notes = h.notes,
                               ![c].stage = "ended"]
  /\ UNCHANGED <<pc, exitCode, crashRestartCount, lastCrashTime, networkRetryCount,
                 backoffMs, clock, diagnostic, exitTimer, childProcesses, nextChild,
                 gitBashPath, hist>>

\* the nextTick callback of a hook subprocess runs
HookTick(c) ==
  /\ Alive
  /\ child[c].kind = "hook"
  /\ child[c].stage = "ended"
  /\ child' = [child EXCEPT
       ![c].stage = "ticked",
       ![c].emitted = @ \o HookEvents(child[c].response),
       ![c].seen = IF child[c].listening THEN @ \o HookEvents(child[c].response) ELSE @]
  /\ UNCHANGED <<pc, exitCode, crashRestartCount, lastCrashTime, networkRetryCount,
                 backoffMs, clock, diagnostic, exitTimer, childProcesses, nextChild,
                 gitBashPath, hist>>

(***************************************************************************)
(* Hooks 4 and 5: process.kill and ChildProcess.prototype.kill             *)
(***************************************************************************)
\* what the original primitive does: it returns true or false, or throws an
\* error with one of these codes
KillErrors == {"EPERM", "ESRCH", "EINVAL"}
KillOutcomes == {"true", "false"} \cup KillErrors

\* what a wrapped kill gives its caller, and whether it ran taskkill
Killed(taskkill, how, value) == [taskkill |-> taskkill, how |-> how, value |-> value]

\* the wrapped process.kill(pid, signal) (runner.js:849-872); taskkillFails:
\* execSync throws
processKill(pid, outcome, taskkillFails) ==
  IF outcome \notin KillErrors THEN Killed(FALSE, "returned", outcome)
  ELSE IF outcome = "EPERM" THEN Killed(TRUE, "returned", "undefined")
  ELSE IF outcome = "ESRCH" THEN Killed(FALSE, "returned", "undefined")
  ELSE Killed(FALSE, "thrown", outcome)

\* the wrapped ChildProcess.prototype.kill(signal) of a subprocess with this
\* pid, 0 for none (runner.js:878-898)
childKill(pid, outcome, taskkillFails) ==
  IF outcome \notin KillErrors THEN Killed(FALSE, "returned", outcome)
  ELSE IF outcome \in {"EPERM", "ESRCH"} THEN Killed(pid # 0, "returned", "undefined")
  ELSE Killed(FALSE, "thrown", outcome)

\* the host program calls process.kill(pid)
ProcessKillCall(pid, outcome, taskkillFails) ==
  /\ Alive
  /\ LET k == processKill(pid, outcome, taskkillFails)
     IN hist' = [hist EXCEPT !.lastKill =
                   KillCall("process", pid, outcome, k.taskkill, k.how, k.value)]
  /\ UNCHANGED <<pc, exitCode, crashRestartCount, lastCrashTime, networkRetryCount,
                 backoffMs, clock, diagnostic, exitTimer, childProcesses, child,
                 nextChild, gitBashPath>>

\* the host program calls kill() on a real subprocess it got from spawn
ChildKillCall(c, outcome, taskkillFails) ==
  /\ Alive
  /\ child[c].kind = "real"
  /\ LET k == childKill(child[c].pid, outcome, taskkillFails)
     IN hist' = [hist EXCEPT !.lastKill =
                   KillCall("child", child[c].pid, outcome, k.taskkill, k.how, k.value)]
  /\ UNCHANGED <<pc, exitCode, crashRestartCount, lastCrashTime, networkRetryCount,
                 backoffMs, clock, diagnostic, exitTimer, childProcesses, child,
                 nextChild, gitBashPath>>

(***************************************************************************)
(* setupSignalHandlers                                                     *)
(***************************************************************************)
FullSignals == {"SIGINT", "SIGTERM", "SIGHUP"}

\* the children killChildren runs taskkill /T /F /PID for
KillTargets == {c \in childProcesses : child[c].pid # 0}

\* killChildren without childProcesses.clear()
AfterKillKeeps == childProcesses

\* the tracked set when killChildren returns
AfterKill == IF Cardinality(childProcesses) = 0 THEN childProcesses ELSE {}

killChildren ==
  /\ hist' = [hist EXCEPT !.killed = @ \cup KillTargets]
  /\ childProcesses' = AfterKill

\* SIGINT, SIGTERM, SIGHUP: kill the children, exit in 100 ms
cleanupAndExit(signal) ==
  /\ Alive
  /\ killChildren
  /\ exitTimer' = TRUE
  /\ UNCHANGED <<pc, exitCode, crashRestartCount, lastCrashTime, networkRetryCount,
                 backoffMs, clock, diagnostic, child, nextChild, gitBashPath>>

\* SigBreak that also arms the exit timer
SigBreakAndExit == cleanupAndExit("SIGBREAK")

\* SIGBREAK: kill the children only
SigBreak ==
  /\ Alive
  /\ killChildren
  /\ UNCHANGED <<pc, exitCode, crashRestartCount, lastCrashTime, networkRetryCount,
                 backoffMs, clock, diagnostic, exitTimer, child, nextChild,
                 gitBashPath>>

\* the timer set by cleanupAndExit fires: process.exit(0)
ExitTimerFires ==
  /\ Alive
  /\ exitTimer
  /\ exitCode' = 0
  /\ UNCHANGED <<pc, crashRestartCount, lastCrashTime, networkRetryCount, backoffMs,
                 clock, diagnostic, exitTimer, childProcesses, child, nextChild,
                 gitBashPath, hist>>

(***************************************************************************)
(* Specifications                                                          *)
(***************************************************************************)
HostFails(maxRuns, durations) ==
  \E err \in Errors, d \in durations : hist.runs < maxRuns /\ HostThrows(err, d)

HostReturns(durations) == \E d \in durations : HostCompletes(d)

Probe == \E connected \in BOOLEAN : ProbeResult(connected)

Spawn == \E req \in SpawnRequests, gotPid \in BOOLEAN : SpawnHook(req, gotPid)

ChildEnds == \E c \in ChildIds, ev \in {"exit", "error"} : ChildEvent(c, ev)

FullTeardown == \E signal \in FullSignals : cleanupAndExit(signal)

\* the whole program, with a host entry point that fails or returns at once
\* and fails in fewer than MaxRunsTracked runs
Next ==
  \/ HostFails(MaxRunsTracked, {0})
  \/ HostReturns({0})
  \/ BackoffElapsed
  \/ Probe
  \/ CrashDelayElapsed
  \/ Spawn
  \/ ChildEnds
  \/ FullTeardown
  \/ SigBreak
  \/ ExitTimerFires

Spec == Init /\ [][Next]_vars

\* the supervisor and the signals, with a host program that creates no subprocess
SupervisorNext ==
  \/ HostFails(MaxRuns, RunDurations)
  \/ HostReturns(RunDurations)
  \/ BackoffElapsed
  \/ Probe
  \/ CrashDelayElapsed
  \/ FullTeardown
  \/ SigBreak
  \/ ExitTimerFires

\* main() found Git Bash (runner.js:644)
SupervisorInit == Init /\ gitBashPath = GitBash

SupervisorSpec == SupervisorInit /\ [][SupervisorNext]_vars

\* the whole program when SIGBREAK is the only signal delivered
BreakNext ==
  \/ HostFails(MaxRunsTracked, {0})
  \/ HostReturns({0})
  \/ BackoffElapsed
  \/ Probe
  \/ CrashDelayElapsed
  \/ Spawn
  \/ ChildEnds
  \/ SigBreak

BreakSpec == Init /\ [][BreakNext]_vars

\* the spawn hook and the synthetic subprocesses it hands out
Attach == \E c \in ChildIds : AttachListeners(c)

BlockedCompletes == \E c \in ChildIds : BlockedTick(c)

HookWrite == \E c \in ChildIds, chunk \in PermissionInputs : StdinWrite(c, chunk)

HookEnd ==
  \E c \in ChildIds, chunk \in EndChunks, notifyThrows \in BOOLEAN :
    StdinEnd(c, chunk, notifyThrows)

HookCompletes == \E c \in ChildIds : HookTick(c)

\* the host program calls spawn, for its first MaxSynthetic subprocesses
SpawnFirst ==
  \E req \in SpawnRequests, gotPid \in BOOLEAN :
    nextChild < MaxSynthetic /\ SpawnHook(req, gotPid)

SyntheticNext ==
  \/ SpawnFirst
  \/ ChildEnds
  \/ Attach
  \/ BlockedCompletes
  \/ HookWrite
  \/ HookEnd
  \/ HookCompletes

SyntheticSpec == Init /\ [][SyntheticNext]_vars

\* the spawn hook and the two wrapped kills
KillByPid ==
  \E pid \in {SupervisorPid, RealPid(1)}, outcome \in KillOutcomes, taskkillFails \in BOOLEAN :
    ProcessKillCall(pid, outcome, taskkillFails)

KillByHandle ==
  \E c \in ChildIds, outcome \in KillOutcomes, taskkillFails \in BOOLEAN :
    ChildKillCall(c, outcome, taskkillFails)

KillNext ==
  \/ SpawnFirst
  \/ ChildEnds
  \/ KillByPid
  \/ KillByHandle

KillSpec == Init /\ [][KillNext]_vars

(***************************************************************************)
(* The exported functions called on their own: validateCommand,            *)
(* windowsToPosix, calculateBackoff, isNetworkError                        *)
(***************************************************************************)
RECURSIVE Repeat(_, _)
Repeat(s, n) ==
  IF n = 0 THEN ""
  ELSE IF n % 2 = 1 THEN s \o Repeat(s, n - 1)
  ELSE LET half == Repeat(s, n \div 2) IN half \o half

\* commands handed to validateCommand (a backtick is written ~)
ValidatorCommands ==
  { "", "ls -la", "git status", "npm install",
    "dir \"C:\\path\\*.json\" /s",
    "dir /s *.js",
    "find /c/Users/johan -maxdepth 3 -type f",
    "timeout 30s find /c/Users/johan -type f",
    "tree -L 2 /c/Users/johan/.claude",
    "git log --all -n 50",
    "git log --all --max-count=100",
    "git log --all -n",
    "cat '/path'\"s\"' name/file'",
    "cat '/path's name/file'",
    "ls '/path/to/file",
    "cat \"/path/$(date)/file\"",
    "cat \"/path/~date~/file\"",
    "ls //server/share/file",
    "cat \"/c/Users/" \o Repeat("a", 300) \o "/file\"",
    "cat /" \o Repeat("a", maxPathLength - 1),
    "cat /" \o Repeat("a", maxPathLength),
    "dir \"C:\\Users\\johan\\.claude\" /s /b",
    "find /c/Users/johan/.claude -type f",
    "tree /c/Users/johan/.claude",
    "git log --all",
    "git diff --all",
    "echo '$(date)",
    "cat 'a'b'c' $(x) //srv/share/f",
    "ls $(x) //srv/share/f",
    "find //srv/share/.claude",
    "find /c/Users/" \o Repeat("a", maxPathLength),
    "dir /s ; find /c/Users/x ; tree /home ; git log --all",
    "find /c/Users/x ; tree /home ; git show --all",
    "tree /home ; git show --all",
    "tree /home/x ; git show --all --max-count=5",
    "find /c/Users/x -maxdepth 2 ; tree /home",
    "echo 'a'", "echo 'a' 'b'", "cp 'a b' 'c d' 'e f'", "echo 'a' 'b' 'c' 'd'",
    "echo ''''", "echo it's 'a' 'b'",
    "echo a\nb", "echo a\rb", "echo a\r\nb", "echo a\\nb", "echo a\\rb",
    "printf '%s\\n' $(date)", "echo ~date~\nls" }

\* values handed to validateCommand: the commands and some non-strings
ValidatorInputs ==
  {JStr(c) : c \in ValidatorCommands}
    \cup {JNull, JUndefined, JNum("0"), JNum("5"), JBool("true"), JObj(<<>>)}

ValidatedOf == [v \in ValidatorInputs |-> validateAny(v)]

\* validateCommand(value) is called and its result seen
ValidateCall ==
  \E v \in ValidatorInputs :
    /\ Alive
    /\ hist' = [hist EXCEPT !.lastCall = Call("validateCommand", v, ValidatedOf[v])]
    /\ UNCHANGED <<pc, exitCode, crashRestartCount, lastCrashTime, networkRetryCount,
                   backoffMs, clock, diagnostic, exitTimer, childProcesses, child,
                   nextChild, gitBashPath>>

\* native paths handed to windowsToPosix: a drive letter and the segments
\* that follow it, each behind a backslash
DriveLetters == {"C", "D", "c", "d", "Z"}
SegmentLists ==
  { <<>>, <<"temp">>, <<"Users", "johan">>, <<"Program Files", "Git">>,
    <<"Users", "johan", "AppData", "Local", "Temp">> }

RECURSIVE Behind(_, _)
Behind(sep, segs) ==
  IF Len(segs) = 0 THEN "" ELSE sep \o Head(segs) \o Behind(sep, Tail(segs))

NativePath(drive, segs) == drive \o ":" \o Behind("\\", segs)
NativePaths == {NativePath(d, segs) : d \in DriveLetters, segs \in SegmentLists}

\* paths that are POSIX already, and strings of neither form
PosixPaths ==
  { "/", "/c/Users/johan", "/Users/johan", "/home/user", "/Home", "/usr/bin",
    "/tmp/My File", "/1/x", "/A", "/_cache/X" }
OtherPaths == {"", "relative\\path", "\\\\server\\share", "C:C:\\x", "1:\\x", "\\C:\\x", "C:/Users\\x"}

TranslatorBase == NativePaths \cup PosixPaths \cup OtherPaths
TranslatorInputs == TranslatorBase \cup {windowsToPosix(p) : p \in TranslatorBase}
PosixOf == [p \in TranslatorInputs |-> windowsToPosix(p)]

\* windowsToPosix(path) is called and its result seen
TranslateCall ==
  \E p \in TranslatorInputs :
    /\ Alive
    /\ hist' = [hist EXCEPT !.lastCall = Call("windowsToPosix", p, PosixOf[p])]
    /\ UNCHANGED <<pc, exitCode, crashRestartCount, lastCrashTime, networkRetryCount,
                   backoffMs, clock, diagnostic, exitTimer, childProcesses, child,
                   nextChild, gitBashPath>>

\* (base, cap) pairs handed to calculateBackoff: the configured pair, the
\* pair of the tests and some others with 0 < base <= cap
BackoffPairs ==
  { <<NETWORK_BACKOFF_BASE_MS, NETWORK_BACKOFF_MAX_MS>>, <<1000, 10000>>,
    <<1, 1>>, <<3, 100>>, <<7, 7000>>, <<60000, 60000>> }

\* calculateBackoff(attempt, baseMs, maxMs) is called and its result seen
BackoffCall ==
  \E n \in 1..MaxAttempt, pair \in BackoffPairs :
    /\ Alive
    /\ hist' = [hist EXCEPT !.lastCall =
                  Call("calculateBackoff", <<n, pair[1], pair[2]>>,
                       calculateBackoff(n, pair[1], pair[2]))]
    /\ UNCHANGED <<pc, exitCode, crashRestartCount, lastCrashTime, networkRetryCount,
                   backoffMs, clock, diagnostic, exitTimer, childProcesses, child,
                   nextChild, gitBashPath>>

\* isNetworkError on any thrown value: what it returns, or that it throws
\* (a value is a [t, s, members] record as JSON.parse builds them)
Returned(value) == [how |-> "returned", value |-> value]
Threw(what) == [how |-> "threw", value |-> what]

isNetworkErrorCall(err) ==
  IF ~Truthy(err) THEN Returned("false")
  ELSE LET code == Get(err, "code")
           message == IF Truthy(Get(err, "message")) THEN Get(err, "message") ELSE JStr("")
       IN IF Truthy(code) /\ code.t = "string" /\ code.s \in networkErrorCodes
          THEN Returned("true")
          ELSE IF message.t # "string"
          THEN Threw("TypeError")   \* (...).toLowerCase is not a function
          ELSE IF \E pattern \in networkErrorMessages :
                    Includes(ToLowerCase(message.s), ToLowerCase(pattern))
          THEN Returned("true")
          ELSE Returned("false")

\* the code and message properties an error value may carry
ErrorCodes ==
  { JUndefined, JStr(""), JStr("ENOTFOUND"), JStr("EPIPE"), JStr("EAI_AGAIN"),
    JStr("EPERM"), JStr("ENOENT"), JStr("enotfound"), JNum("42") }
ErrorMessages ==
  { JUndefined, JStr(""), JStr("boom"), JStr("generic error"), JStr("Network Down"),
    JStr("FETCH FAILED"), JStr("socket hang up"), JStr("connect econnrefused 127.0.0.1:443"),
    JStr("getaddrinfo ENOTFOUND api.anthropic.com"), JStr("net work"), JNum("42"), JNull }

ErrorValue(code, message) == JObj(<<Member("code", code), Member("message", message)>>)

ClassifierInputs ==
  {JNull, JUndefined, JStr("network down"), JStr("")}
    \cup {ErrorValue(code, message) : code \in ErrorCodes, message \in ErrorMessages}

ClassifiedOf == [e \in ClassifierInputs |-> isNetworkErrorCall(e)]

\* isNetworkError(err) is called and what it does is seen
ClassifyCall ==
  \E e \in ClassifierInputs :
    /\ Alive
    /\ hist' = [hist EXCEPT !.lastCall = Call("isNetworkError", e, ClassifiedOf[e])]
    /\ UNCHANGED <<pc, exitCode, crashRestartCount, lastCrashTime, networkRetryCount,
                   backoffMs, clock, diagnostic, exitTimer, childProcesses, child,
                   nextChild, gitBashPath>>

(***************************************************************************)
(* Hook 7: fs.readFileSync                                                 *)
(***************************************************************************)
\* JSON.stringify(value, null, 2): members on lines of their own, indented
\* by two spaces a level; an empty object or array stays on one line
RECURSIVE JSONStringifyIndent(_, _)
RECURSIVE IndentMembers(_, _, _, _)

IndentMembers(members, n, withKeys, depth) ==
  IF n > Len(members) THEN ""
  ELSE (IF n > 1 THEN ",\n" ELSE "")
       \o Repeat(" ", 2 * depth)
       \o (IF withKeys THEN "\"" \o Escaped(members[n].key) \o "\": " ELSE "")
       \o JSONStringifyIndent(members[n].val, depth)
       \o IndentMembers(members, n + 1, withKeys, depth)

JSONStringifyIndent(value, depth) ==
  CASE value.t = "string" -> "\"" \o Escaped(value.s) \o "\""
    [] value.t \in {"number", "boolean"} -> value.s
    [] value.t = "object" ->
         IF Len(value.members) = 0 THEN "{}"
         ELSE "{\n" \o IndentMembers(value.members, 1, TRUE, depth + 1)
                \o "\n" \o Repeat(" ", 2 * depth) \o "}"
    [] value.t = "array" ->
         IF Len(value.members) = 0 THEN "[]"
         ELSE "[\n" \o IndentMembers(value.members, 1, FALSE, depth + 1)
                \o "\n" \o Repeat(" ", 2 * depth) \o "]"
    [] OTHER -> "null"

\* object.key = val: an existing key keeps its place, a new one goes last
SetMember(members, key, val) ==
  IF \E n \in 1..Len(members) : members[n].key = key
  THEN [n \in 1..Len(members) |-> IF members[n].key = key THEN Member(key, val) ELSE members[n]]
  ELSE Append(members, Member(key, val))

\* the registration the hook injects
\* (an array element is a member with the key "")
InjectedHook ==
  JArr(<< Member("", JObj(<< Member("hooks",
            JArr(<< Member("", JObj(<< Member("type", JStr("command")),
                                       Member("command", JStr("node -e \"" \o Marker \o "\"")) >>)) >>)) >>)) >>)

\* value.length as the hook reads it: truthy or not
HasLength(value) ==
  CASE value.t = "array" -> Len(value.members) > 0
    [] value.t = "string" -> value.s # ""
    [] value.t = "object" -> Truthy(Get(value, "length"))
    [] OTHER -> FALSE

\* the try block on parsed settings: the settings to write back, or that a
\* TypeError was thrown (a property read on null, a property set on a
\* primitive in strict mode)
Inject(settings) ==
  LET hooks == Get(settings, "hooks") IN
  IF settings.t \in {"null", "undefined"} THEN [ok |-> FALSE, val |-> settings]
  ELSE IF Truthy(hooks) /\ HasLength(Get(hooks, "PermissionRequest"))
  THEN [ok |-> TRUE, val |-> settings]
  ELSE IF settings.t \notin {"object", "array"} THEN [ok |-> FALSE, val |-> settings]
  ELSE IF Truthy(hooks) /\ hooks.t \notin {"object", "array"} THEN [ok |-> FALSE, val |-> settings]
  ELSE IF settings.t = "array" THEN [ok |-> TRUE, val |-> settings]
  ELSE IF Truthy(hooks) /\ hooks.t = "array" THEN [ok |-> TRUE, val |-> settings]
  ELSE LET base == IF Truthy(hooks) THEN hooks.members ELSE <<>>
       IN [ok |-> TRUE,
           val |-> JObj(SetMember(settings.members, "hooks",
                                  JObj(SetMember(base, "PermissionRequest", InjectedHook))))]

\* the hooked fs.readFileSync(filePath): result is what the original returns
readFileSync(filePath, result) ==
  LET normalizedPath == SlashAll(filePath) IN
  IF ~Includes(normalizedPath, ".claude/settings.json")
       /\ ~Includes(normalizedPath, ".claude\\settings.json")
  THEN result
  ELSE LET parsed == JSONParse(result) IN
       IF ~parsed.ok THEN result
       ELSE IF ~Inject(parsed.val).ok THEN result
       ELSE JSONStringifyIndent(Inject(parsed.val).val, 0)

\* os.homedir() and the settings path the hook computes from it
HomeDir == "C:\\Users\\me"
settingsPath == SlashAll(HomeDir \o "\\.claude\\settings.json")

\* paths read through the hook, and what the files hold
ReadPaths ==
  { HomeDir \o "\\.claude\\settings.json",
    "C:/Users/me/.claude/settings.json",
    "D:\\work\\proj\\.claude\\settings.json",
    "C:\\Users\\me\\.claude\\settings.json.bak",
    "C:\\Users\\me\\.claude\\settings.local.json",
    "C:\\Users\\me\\.claude.json",
    "C:\\Users\\me\\notes.txt",
    "D:\\work\\proj\\settings.json" }

FileContents ==
  { "", "not json", "null", "5", "[]", "{}",
    "{\"model\":\"opus\"}",
    "{\"hooks\":{\"Stop\":[]}}",
    "{\"hooks\":{\"PermissionRequest\":[]}}",
    "{\"hooks\":{\"PermissionRequest\":[{\"hooks\":[]}]},\"model\":\"opus\"}",
    "{\n  \"hooks\": {\n    \"PermissionRequest\": [\n      1\n    ]\n  }\n}" }

ReadOf == [f \in ReadPaths \X FileContents |-> readFileSync(f[1], f[2])]

\* fs.readFileSync(filePath) is called on a file holding content
ReadCall ==
  \E filePath \in ReadPaths, content \in FileContents :
    /\ Alive
    /\ hist' = [hist EXCEPT !.lastCall =
                  Call("readFileSync", <<filePath, content>>, ReadOf[<<filePath, content>>])]
    /\ UNCHANGED <<pc, exitCode, crashRestartCount, lastCrashTime, networkRetryCount,
                   backoffMs, clock, diagnostic, exitTimer, childProcesses, child,
                   nextChild, gitBashPath>>

PureNext ==
  \/ ValidateCall
  \/ TranslateCall
  \/ BackoffCall
  \/ ClassifyCall
  \/ ReadCall

PureSpec == Init /\ [][PureNext]_vars

\* the spawn hook alone, with the call it makes of the original spawn
SpawnSeen ==
  \E req \in SpawnRequests, options \in SpawnOptions, gotPid \in BOOLEAN :
    SpawnHookSeen(req, options, gotPid)

SpawnNext ==
  \/ SpawnSeen
  \/ ChildEnds

SpawnSpec == Init /\ [][SpawnNext]_vars

\* the host program calls spawn for its first subprocess
SpawnOnce ==
  \E req \in SpawnRequests, gotPid \in BOOLEAN :
    nextChild = 0 /\ SpawnHook(req, gotPid)

\* the restart loop over MaxRuns runs of a host program that fails or returns
\* at once and creates one subprocess, with the subprocess listeners and the
\* signals
RestartNext ==
  \/ HostFails(MaxRuns, {0})
  \/ HostReturns({0})
  \/ BackoffElapsed
  \/ Probe
  \/ CrashDelayElapsed
  \/ SpawnOnce
  \/ ChildEnds
  \/ FullTeardown
  \/ SigBreak
  \/ ExitTimerFires

RestartSpec == Init /\ [][RestartNext]_vars

\* The restart loop with a host program that fails with network errors only
\* and never completes.  Time is not followed here (Date.now() is read only
\* by the branch for other errors, runner.js:600) and of the history only the
\* current episode is kept, with the episodes counted up to MaxEpisodes.
NetHostFails ==
  \E err \in Errors :
    /\ Alive
    /\ pc = "running"
    /\ IsNetworkErrorOf[err]
    /\ NetworkFailure(clock)
    /\ hist' = [hist EXCEPT !.netFailures = Min(@ + 1, MaxEpisodes), !.probes = 0,
                            !.failedProbes = 0, !.lastProbe = "none"]
    /\ UNCHANGED <<clock, exitTimer, childProcesses, child, nextChild, gitBashPath>>

\* the backoff timer fires and the probe starts
NetBackoffElapsed ==
  /\ Alive
  /\ pc = "backoff"
  /\ pc' = "probing"
  /\ hist' = [hist EXCEPT !.probes = @ + 1, !.waited = backoffMs]
  /\ UNCHANGED <<exitCode, crashRestartCount, lastCrashTime, networkRetryCount,
                 backoffMs, clock, diagnostic, exitTimer, childProcesses, child,
                 nextChild, gitBashPath>>

\* checkConnectivity() resolves
NetProbe ==
  \E connected \in BOOLEAN :
    /\ Alive
    /\ pc = "probing"
    /\ IF connected
       THEN /\ ConnectionRestored
            /\ hist' = [hist EXCEPT !.lastProbe = "ok"]
       ELSE /\ NextRetry(networkRetryCount)
            /\ hist' = [hist EXCEPT !.failedProbes = @ + 1, !.lastProbe = "fail"]
    /\ UNCHANGED <<crashRestartCount, lastCrashTime, clock, exitTimer,
                   childProcesses, child, nextChild, gitBashPath>>

NetworkLoopNext ==
  \/ NetHostFails
  \/ NetBackoffElapsed
  \/ NetProbe

\* the host keeps failing, timers fire and DNS lookups end
NetworkLoopSpec ==
  /\ Init
  /\ [][NetworkLoopNext]_vars
  /\ WF_vars(NetHostFails)
  /\ WF_vars(NetBackoffElapsed)
  /\ WF_vars(NetProbe)

(***************************************************************************)
(* Properties                                                              *)
(***************************************************************************)

C2_NetworkLeavesCrashState ==
  [][ (hist'.netFailures # hist.netFailures \/ pc \in {"backoff", "probing"}) =>
        /\ crashRestartCount' = crashRestartCount
        /\ lastCrashTime' = lastCrashTime
        /\ hist'.okProbes # hist.okProbes => networkRetryCount' = 0 ]_vars

C2_Witness ==
  /\ hist.okProbes > 0
  /\ pc = "running"
  /\ crashRestartCount = MAX_CRASH_RESTARTS - 1
  /\ networkRetryCount = 0

\* C3: when the crash diagnostic has been printed, the crashes counted since
\* the last reset of the counter lie within CRASH_WINDOW_MS: the last counted
\* crash is at most CRASH_WINDOW_MS after the first counted one.
C3_CountedCrashesWithinWindow ==
  diagnostic = "crash" => lastCrashTime - hist.firstCounted <= CRASH_WINDOW_MS

\* C4: a network episode makes at most MAX_NETWORK_RETRIES probes; the k-th
\* probe starts after a wait of min(base * 2^(k-1), cap); a successful probe
\* ends the episode with a restart of the host; the process stops with the
\* network diagnostic and status 1 exactly when MAX_NETWORK_RETRIES probes of
\* one episode have failed, and the host is not started again.
C4_ProbeSchedule ==
  /\ hist.probes <= MAX_NETWORK_RETRIES
  /\ pc = "probing" =>
       /\ hist.probes >= 1
       /\ hist.waited = Min(NETWORK_BACKOFF_BASE_MS * Pow2(hist.probes - 1),
                            NETWORK_BACKOFF_MAX_MS)
       /\ hist.failedProbes = hist.probes - 1
  /\ pc \in {"backoff", "probing"} => hist.lastProbe # "ok" /\ exitCode # 1
  /\ hist.lastProbe = "ok" => pc \notin {"backoff", "probing"} /\ diagnostic # "network"
  /\ hist.runs = 1 + hist.okProbes + hist.crashRestarts
  /\ hist.failedProbes = MAX_NETWORK_RETRIES <=>
       (diagnostic = "network" /\ exitCode = 1 /\ pc = "stopped")

C4_Witness ==
  /\ hist.failedProbes = MAX_NETWORK_RETRIES
  /\ hist.waited = NETWORK_BACKOFF_MAX_MS
  /\ exitCode = 1
  /\ hist.okProbes > 0

\* C5: when the host entry point has completed after k network-classified
\* failures and no other failure, it was started exactly k + 1 times (k
\* restarts), the crash counter and the last-crash timestamp still have
\* their initial value 0, and no failure exit or diagnostic has happened.
C5_NetworkThenSuccess ==
  (pc = "completed" /\ hist.genFailures = 0) =>
    /\ hist.runs = hist.netFailures + 1
    /\ hist.okProbes = hist.netFailures
    /\ crashRestartCount = 0
    /\ lastCrashTime = 0
    /\ networkRetryCount = 0
    /\ exitCode # 1
    /\ diagnostic = "none"

C5_Witness ==
  /\ pc = "completed"
  /\ hist.genFailures = 0
  /\ hist.netFailures = 3
  /\ Alive

\* C6: while every generic crash came more than CRASH_WINDOW_MS after the
\* previous one, the crash counter is 1 after each crash (never above 1), the
\* crash diagnostic is never printed, and every crash is followed by the
\* post-crash delay and a restart.
C6_SpacedCrashesNeverStop ==
  hist.allSpaced =>
    /\ crashRestartCount <= 1
    /\ hist.genFailures > 0 => crashRestartCount = 1
    /\ diagnostic # "crash"
    /\ pc \notin {"rejected"}
    /\ pc = "crashDelay" => hist.crashRestarts = hist.genFailures - 1
    /\ pc # "crashDelay" => hist.crashRestarts = hist.genFailures

C6_Witness ==
  /\ hist.allSpaced
  /\ hist.genFailures >= 3
  /\ hist.netFailures = 0
  /\ pc = "running"

\* C7 (as claimed): an entry leaves the tracked set only in a step that
\* delivers that subprocess's own exit or error event.
C7_OnlyOwnEventRemoves ==
  [][ \A c \in childProcesses \ childProcesses' :
        child'[c].notified /\ ~child[c].notified ]_vars

\* C7 (amended): an entry leaves the tracked set only in a step that delivers
\* that subprocess's own exit or error event (and removes nothing else), or in
\* a teardown step of a signal handler, which issues a kill for it and leaves
\* the set empty.
C7_RemovedByEventOrTeardown ==
  [][ \A c \in childProcesses \ childProcesses' :
        \/ /\ child'[c].notified /\ ~child[c].notified
           /\ childProcesses' = childProcesses \ {c}
        \/ /\ childProcesses' = {}
           /\ c \in hist'.killed \ hist.killed ]_vars

C7_Witness ==
  \E c \in ChildIds : \E e \in ChildIds :
    /\ c \in hist.killed /\ ~child[c].notified /\ c \notin childProcesses
    /\ e \in hist.tracked /\ child[e].notified /\ e \notin hist.killed

\* C8: a real subprocess with a pid is in the tracked set from the moment the
\* spawn hook returns it until its first exit or error event or a teardown;
\* and every member of the tracked set is a real subprocess with a pid none of
\* whose exit or error events has been delivered.
C8_TrackedUntilEvent ==
  \A c \in ChildIds :
    /\ (child[c].kind = "real" /\ child[c].pid # 0
          /\ ~child[c].notified /\ c \notin hist.killed) => c \in childProcesses
    /\ c \in childProcesses =>
         child[c].kind = "real" /\ child[c].pid # 0 /\ ~child[c].notified

C8_Witness ==
  \E c \in ChildIds : \E e \in ChildIds :
    /\ c \in childProcesses
    /\ e \in hist.tracked /\ child[e].notified /\ e \notin childProcesses

\* C9: once a full-teardown signal has been delivered, the process, when it
\* has exited, has exited with status 0.
C9_ExitsZeroAfterFullTeardown ==
  (exitTimer /\ ~Alive) => exitCode = 0

\* C10: when the process has exited through the exit timer of a full-teardown
\* signal (status 0), every subprocess that was ever tracked has delivered an
\* exit or error event or was issued a taskkill.
C10_NoChildLeftBehind ==
  (~Alive /\ exitCode = 0) =>
    \A c \in hist.tracked : child[c].notified \/ c \in hist.killed

\* C11: when SIGBREAK is the only signal delivered, every step that issues
\* kills issues one for every tracked subprocess, arms no exit timer, leaves
\* the process alive and leaves the crash counter, the last-crash timestamp,
\* the network retry counter, the position of the restart loop and its pending
\* wait unchanged.
C11_BreakKillsOnly ==
  [][ hist'.killed # hist.killed =>
        /\ childProcesses \subseteq hist'.killed
        /\ ~exitTimer'
        /\ exitCode' = exitCode
        /\ supVars' = supVars
        /\ pc' = pc /\ backoffMs' = backoffMs /\ clock' = clock
        /\ diagnostic' = diagnostic ]_vars

C11_Witness ==
  /\ hist.killed # {}
  /\ Alive
  /\ pc = "backoff"
  /\ networkRetryCount > 0
  /\ ~exitTimer

\* C12: a blocked synthetic subprocess has emitted nothing while its nextTick
\* callback is pending; the callback emits exactly four events: one data event
\* on stderr whose payload contains the denial reason, then close on stdout,
\* close on stderr and last close on the subprocess with status 1; listeners
\* attached before the callback ran have received exactly these, in this order.
C12_BlockedEmitsOnNextTick ==
  \A c \in ChildIds : child[c].kind = "blocked" =>
    /\ child[c].reason # ""
    /\ child[c].stage \in {"pending", "ticked"}
    /\ child[c].stage = "pending" => child[c].emitted = <<>> /\ child[c].seen = <<>>
    /\ child[c].stage = "ticked" =>
         LET e == child[c].emitted IN
         /\ Len(e) = 4
         /\ e[1].on = "stderr" /\ e[1].event = "data"
         /\ Includes(e[1].data, child[c].reason)
         /\ \A i \in 2..4 : e[i].event = "close"
         /\ e[4].on = "child" /\ e[4].code = 1 /\ e[4].code # 0
         /\ {e[2].on, e[3].on} = {"stdout", "stderr"}
         /\ child[c].early => child[c].seen = e
         /\ ~child[c].early => child[c].seen = <<>>

C12_Witness ==
  \E c \in ChildIds :
    /\ child[c].kind = "blocked"
    /\ child[c].early
    /\ child[c].stage = "ticked"
    /\ Len(child[c].seen) = 4

\* C13: a hook-handling synthetic subprocess has emitted nothing while its
\* stdin is open and nothing when stdin.end has returned and the nextTick
\* callback is still pending; the callback emits exactly four events: one
\* data event on stdout carrying the handler's response for the accumulated
\* input, then close on stdout, close on stderr and last close on the
\* subprocess with status 0; listeners attached before the callback ran have
\* received exactly these, in this order.
C13_HookEmitsAfterEnd ==
  \A c \in ChildIds : child[c].kind = "hook" =>
    /\ child[c].pid = SupervisorPid
    /\ child[c].stage \in {"open", "ended", "ticked"}
    /\ child[c].stage \in {"open", "ended"} =>
         child[c].emitted = <<>> /\ child[c].seen = <<>>
    /\ child[c].stage = "ticked" =>
         LET e == child[c].emitted IN
         /\ Len(e) = 4
         /\ e[1].on = "stdout" /\ e[1].event = "data"
         /\ e[1].data = HandledOf[child[c].stdinData, child[c].notifyThrows].result
         /\ \A i \in 2..4 : e[i].event = "close"
         /\ {e[2].on, e[3].on} = {"stdout", "stderr"}
         /\ e[4].on = "child" /\ e[4].code = 0
         /\ child[c].early => child[c].seen = e
         /\ ~child[c].early => child[c].seen = <<>>

C13_Witness ==
  \E c \in ChildIds :
    /\ child[c].kind = "hook"
    /\ child[c].stage = "ticked"
    /\ child[c].early
    /\ child[c].stdinData = "{\"tool_name\":\"ExitPlanMode\"}"
    /\ Len(child[c].seen) = 4
    /\ child[c].seen[1].data = ""

\* the requests that carry the marker in the command or in any argument
MarkedRequests ==
  {req \in SpawnRequests :
     \/ Includes(req.command, Marker)
     \/ \E i \in 1..Len(req.args) : Includes(req.args[i], Marker)}

\* the requests the hook looks for: the marker in the command, or the command
\* node with the marker in an argument
HookRequests ==
  {req \in SpawnRequests :
     \/ Includes(req.command, Marker)
     \/ req.command = "node" /\ \E i \in 1..Len(req.args) : Includes(req.args[i], Marker)}

\* C14 (as claimed): every call of spawn whose command or any of whose
\* arguments contains the marker creates a hook-handling synthetic subprocess
\* and leaves the tracked set unchanged.
C14_MarkerAnywhereIsHook ==
  [][ \A req \in MarkedRequests, gotPid \in BOOLEAN :
        SpawnHook(req, gotPid) =>
          /\ child'[nextChild'].kind = "hook"
          /\ childProcesses' = childProcesses ]_vars

\* C14 (amended): every call of spawn whose command contains the marker, or
\* whose command is node and one of whose arguments contains the marker,
\* creates a hook-handling synthetic subprocess (with the supervisor's own
\* pid, no real subprocess) and leaves the tracked set unchanged.
C14_HookRequestIsHook ==
  [][ \A req \in HookRequests, gotPid \in BOOLEAN :
        SpawnHook(req, gotPid) =>
          /\ child'[nextChild'].kind = "hook"
          /\ child'[nextChild'].pid = SupervisorPid
          /\ child'[nextChild'].stage = "open"
          /\ childProcesses' = childProcesses
          /\ hist'.tracked = hist.tracked ]_vars

C14_Witness ==
  /\ nextChild = 2
  /\ child[2].kind = "hook"
  /\ childProcesses = {1}

\* the requests for /bin/bash whose argument after -c the validator denies
DeniedBashRequests ==
  {req \in SpawnRequests :
     /\ req.command = "/bin/bash"
     /\ \E i \in 1..(Len(req.args) - 1) :
          req.args[i] = "-c" /\ ~validateCommand(req.args[i + 1]).allowed}

\* C15: with a Git Bash path configured, every call of spawn for /bin/bash
\* whose -c argument the validator denies creates a blocked synthetic
\* subprocess that carries a reason, and leaves the tracked set unchanged.
C15_DeniedBashIsBlocked ==
  [][ \A req \in DeniedBashRequests, gotPid \in BOOLEAN :
        (gitBashPath # "" /\ SpawnHook(req, gotPid)) =>
          /\ child'[nextChild'].kind = "blocked"
          /\ child'[nextChild'].reason # ""
          /\ childProcesses' = childProcesses ]_vars

\* the inputs JSON.parse accepts, and among them the requests for a tool of
\* the exclusion set
ParseableInputs == {i \in HookInputs : JSONParse(i).ok}

ExcludedInputs ==
  {i \in ParseableInputs :
     LET tool == Get(JSONParse(i).val, "tool_name")
     IN tool.t = "string" /\ tool.s \in {"AskUserQuestion", "ExitPlanMode"}}

\* the text of the structured allow decision, and what it parses to
AllowText ==
  "{\"hookSpecificOutput\":{\"hookEventName\":\"PermissionRequest\",\"decision\":{\"behavior\":\"allow\"}}}"

AllowParsed == JSONParse(AllowText)

\* the hook subprocesses whose stdin.end has run the handler
Answered == {c \in ChildIds : child[c].kind = "hook" /\ child[c].stage \in {"ended", "ticked"}}

\* C16: when notifier.notify does not throw, the handler answers every request
\* for a tool of the exclusion set with the empty string, whatever its other
\* fields, and dispatches exactly one notification.
C16_ExcludedToolPassesThrough ==
  \A c \in Answered :
    (child[c].stdinData \in ExcludedInputs /\ ~child[c].notifyThrows) =>
      child[c].response = "" /\ Len(child[c].notes) = 1

\* C17: the handler answers every parseable request whose tool name is not in
\* the exclusion set (or is missing) with the text of the structured allow
\* decision, the same for every such input, and dispatches no notification;
\* that text parses to an object whose only member is hookSpecificOutput, with
\* hookEventName PermissionRequest and decision.behavior allow, and no ok.
C17_OtherToolsAllowed ==
  /\ AllowParsed.ok
  /\ Len(AllowParsed.val.members) = 1
  /\ Get(AllowParsed.val, "ok") = JUndefined
  /\ Get(Get(AllowParsed.val, "hookSpecificOutput"), "hookEventName") = JStr("PermissionRequest")
  /\ Get(Get(Get(AllowParsed.val, "hookSpecificOutput"), "decision"), "behavior") = JStr("allow")
  /\ Len(Get(AllowParsed.val, "hookSpecificOutput").members) = 2
  /\ \A c \in Answered :
       child[c].stdinData \in ParseableInputs \ ExcludedInputs =>
         child[c].response = AllowText /\ child[c].notes = <<>>

C17_Witness ==
  \E c \in Answered :
    /\ child[c].stdinData = "{\"tool_input\":{}}"
    /\ child[c].response = AllowText
    /\ child[c].stage = "ticked"

\* C18: the handler answers every input JSON.parse rejects (the empty string,
\* text that is no JSON, a request cut short) with the text of the structured
\* allow decision and dispatches no notification.
C18_FailsOpen ==
  \A c \in Answered :
    child[c].stdinData \notin ParseableInputs =>
      child[c].response = AllowText /\ child[c].notes = <<>>

C18_Witness ==
  /\ \E c \in Answered : child[c].stdinData = "" /\ child[c].response = AllowText
  /\ "invalid json" \in HookInputs \ ParseableInputs
  /\ "{\"tool_name\":\"ExitPlanMode\"" \in HookInputs \ ParseableInputs

\* C19: the handler's return value does not depend on whether notifier.notify
\* throws: it is what the handler returns when the notification succeeds.
C19_NotifyFailureKeepsResult ==
  \A c \in Answered :
    child[c].response = HandledOf[child[c].stdinData, FALSE].result

\* C20: for both wrapped kills, taskkill is run only when the original failed
\* with EPERM; a failure with EPERM or ESRCH is reported as a normal return,
\* whether or not taskkill fails; a failure with another code is thrown
\* unchanged; a return of the original is handed on as is without taskkill.
C20_FallbackOnlyOnEperm ==
  hist.lastKill.hook \in {"process", "child"} =>
    /\ hist.lastKill.taskkill => hist.lastKill.outcome = "EPERM"
    /\ hist.lastKill.outcome \in {"EPERM", "ESRCH"} => hist.lastKill.how = "returned"
    /\ hist.lastKill.outcome = "EINVAL" =>
         hist.lastKill.how = "thrown" /\ hist.lastKill.value = "EINVAL"
    /\ hist.lastKill.outcome \in {"true", "false"} =>
         /\ hist.lastKill.how = "returned"
         /\ hist.lastKill.value = hist.lastKill.outcome
         /\ ~hist.lastKill.taskkill

\* C21: when the original kill failed with EPERM or ESRCH, the wrapped kill
\* returns the value the original returns on a successful call (true).
C21_RecoveredReturnsSuccessValue ==
  (hist.lastKill.hook \in {"process", "child"}
     /\ hist.lastKill.outcome \in {"EPERM", "ESRCH"}) =>
    hist.lastKill.how = "returned" /\ hist.lastKill.value = "true"

\* the nine checks of the validator in the order the claim lists them, each
\* with a phrase of the reason it surfaces
CheckPhrases ==
  << "unbalanced quotes", "nested quotes", "shell expansion", "UNC network path",
     "exceeds 260 characters", "dir /s without", "find on user directory",
     "tree without depth", "git --all without" >>

ChecksOf ==
  [c \in ValidatorCommands |->
     << QuoteCount(c) % 2 = 1,
        NestedQuotes(c), ShellExpansion(c), UncPath(c),
        PathTooLong(c),
        Detect("dir-recursive", c) /\ ~Unless("dir-recursive", c),
        Detect("find-no-maxdepth", c) /\ ~Unless("find-no-maxdepth", c),
        Detect("tree-no-depth", c) /\ ~Unless("tree-no-depth", c),
        Detect("git-all-no-limit", c) /\ ~Unless("git-all-no-limit", c) >>]

Firing(c) == {k \in 1..9 : ChecksOf[c][k]}
Earliest(c) == CHOOSE k \in Firing(c) : \A j \in Firing(c) : k <= j

\* C22: validateCommand allows a non-string or empty input; otherwise it
\* returns the denial of the earliest check that fires, in the order quotes,
\* nested-quotes, shell-expansion, unc-path, path length, dir, find, tree,
\* git; a denial carries a reason and with no check firing the result is
\* exactly {allowed: true}.
C22_FirstFiringCheck ==
  hist.lastCall.fn = "validateCommand" =>
    LET v == hist.lastCall.input
        out == hist.lastCall.output
    IN IF v.t # "string" \/ v.s = "" \/ Firing(v.s) = {}
       THEN out = [allowed |-> TRUE, reason |-> ""]
       ELSE /\ out.allowed = FALSE
            /\ out.reason # ""
            /\ Includes(out.reason, CheckPhrases[Earliest(v.s)])
            /\ \A k \in 1..9 : k # Earliest(v.s) => ~Includes(out.reason, CheckPhrases[k])

\* a command on which a crash check and a hang rule both fire was denied
\* for the crash check
C22_Witness ==
  /\ hist.lastCall.fn = "validateCommand"
  /\ hist.lastCall.input.t = "string"
  /\ hist.lastCall.input.s # ""
  /\ Cardinality(Firing(hist.lastCall.input.s)) >= 2
  /\ \E k \in Firing(hist.lastCall.input.s) : k >= 6
  /\ Earliest(hist.lastCall.input.s) <= 5
  /\ hist.lastCall.output.allowed = FALSE

\* the hang rules in order, with what each pattern says of each command
HangRuleNames == <<"dir-recursive", "find-no-maxdepth", "tree-no-depth", "git-all-no-limit">>
DetectOf == [c \in ValidatorCommands |-> [r \in 1..4 |-> Detect(HangRuleNames[r], c)]]
UnlessOf == [c \in ValidatorCommands |-> [r \in 1..4 |-> Unless(HangRuleNames[r], c)]]

\* no check that comes before hang rule r fires on command c
ReachesRule(c, r) == \A k \in 1..(r + 4) : ~ChecksOf[c][k]

\* C23: a hang rule that is reached denies the command exactly when its
\* detect pattern matches and its unless pattern does not; "git log --all"
\* is denied and "git log --all -n 50" allowed, a recursive dir listing is
\* denied without and allowed with a file-extension filter.
C23_DeniedIffDetectedAndNotExempt ==
  (hist.lastCall.fn = "validateCommand" /\ hist.lastCall.input.t = "string"
     /\ hist.lastCall.input.s # "") =>
    LET c == hist.lastCall.input.s
        out == hist.lastCall.output
    IN /\ \A r \in 1..4 :
            ReachesRule(c, r) =>
              ((~out.allowed /\ Includes(out.reason, CheckPhrases[r + 5]))
                 <=> (DetectOf[c][r] /\ ~UnlessOf[c][r]))
       /\ c \in {"git log --all", "dir \"C:\\Users\\johan\\.claude\" /s /b"} => ~out.allowed
       /\ c \in {"git log --all -n 50", "dir \"C:\\path\\*.json\" /s"} => out.allowed

\* a command that matches a rule's detect pattern and its exemption was allowed
C23_Witness ==
  /\ hist.lastCall.fn = "validateCommand"
  /\ hist.lastCall.input.t = "string"
  /\ hist.lastCall.input.s # ""
  /\ \E r \in 1..4 :
       /\ ReachesRule(hist.lastCall.input.s, r)
       /\ DetectOf[hist.lastCall.input.s][r]
       /\ UnlessOf[hist.lastCall.input.s][r]
  /\ hist.lastCall.output.allowed

\* C24: an input that is POSIX already comes back unchanged, whatever the
\* case of its first segment.
C24_PosixUnchanged ==
  (hist.lastCall.fn = "windowsToPosix" /\ hist.lastCall.input \in PosixPaths) =>
    hist.lastCall.output = hist.lastCall.input

\* what the claim expects of a native path: "/", the drive letter in lower
\* case, and the segments each behind a "/"
LowerDrive == [d \in DriveLetters |-> CASE d \in {"C", "c"} -> "c" [] d \in {"D", "d"} -> "d" [] d = "Z" -> "z"]
ExpectedPosix(drive, segs) == "/" \o LowerDrive[drive] \o Behind("/", segs)

\* C25: a native path <letter>:\a\b becomes /<lower-case letter>/a/b with the
\* segments kept as they are, and translating a second time changes nothing,
\* for any input.
C25_NativeTranslated ==
  hist.lastCall.fn = "windowsToPosix" =>
    /\ \A d \in DriveLetters, segs \in SegmentLists :
         hist.lastCall.input = NativePath(d, segs) =>
           hist.lastCall.output = ExpectedPosix(d, segs)
    /\ PosixOf[hist.lastCall.output] = hist.lastCall.output

\* an upper-case drive with mixed-case segments and a space was translated
C25_Witness ==
  /\ hist.lastCall.fn = "windowsToPosix"
  /\ hist.lastCall.input = "C:\\Program Files\\Git"
  /\ hist.lastCall.output = "/c/Program Files/Git"

\* C26: for attempt n >= 1 and 0 < base <= cap the backoff is base at
\* attempt 1, doubles while below the cap, never exceeds the cap, stays at
\* the cap once there, and with the configured base and cap it is at the cap
\* by attempt MAX_NETWORK_RETRIES.
C26_BackoffDoublesToCap ==
  hist.lastCall.fn = "calculateBackoff" =>
    LET n == hist.lastCall.input[1]
        base == hist.lastCall.input[2]
        cap == hist.lastCall.input[3]
        out == hist.lastCall.output
        next == calculateBackoff(n + 1, base, cap)
    IN /\ n = 1 => out = base
       /\ out <= cap
       /\ out >= base
       /\ out < cap => (out = base * (2 ^ (n - 1)) /\ next > out /\ next = Min(2 * out, cap))
       /\ out = cap => next = cap
       /\ (base = NETWORK_BACKOFF_BASE_MS /\ cap = NETWORK_BACKOFF_MAX_MS
             /\ n >= MAX_NETWORK_RETRIES) => out = cap

\* the configured backoff was asked for at the attempt where the cap cuts it
C26_Witness ==
  /\ hist.lastCall.fn = "calculateBackoff"
  /\ hist.lastCall.input = <<5, NETWORK_BACKOFF_BASE_MS, NETWORK_BACKOFF_MAX_MS>>
  /\ hist.lastCall.output = NETWORK_BACKOFF_MAX_MS

\* the connectivity codes and phrases as the claim fixes them
ConnectivityCodes ==
  {"ENOTFOUND", "ETIMEDOUT", "ECONNREFUSED", "ECONNRESET",
   "ENETUNREACH", "EAI_AGAIN", "EHOSTUNREACH", "EPIPE"}
ConnectivityPhrases ==
  {"network", "fetch failed", "socket hang up", "enotfound",
   "etimedout", "getaddrinfo", "connect econnrefused"}

\* C27: isNetworkError never throws, and returns true exactly for a non-null
\* error whose code is a connectivity code or whose message contains a
\* connectivity phrase, whatever its letter case.
C27_ClassifiesWithoutThrowing ==
  hist.lastCall.fn = "isNetworkError" =>
    LET e == hist.lastCall.input
        out == hist.lastCall.output
        code == Get(e, "code")
        message == Get(e, "message")
    IN /\ out.how = "returned"
       /\ out.value = "true" <=>
            /\ e.t \notin {"null", "undefined"}
            /\ \/ code.t = "string" /\ code.s \in ConnectivityCodes
               \/ /\ message.t = "string"
                  /\ \E phrase \in ConnectivityPhrases : Includes(ToLowerCase(message.s), phrase)

\* C28: a read of any path other than the user settings path
\* <home>/.claude/settings.json returns what the original primitive returns.
C28_OnlySettingsPathAltered ==
  (hist.lastCall.fn = "readFileSync" /\ SlashAll(hist.lastCall.input[1]) # settingsPath) =>
    hist.lastCall.output = hist.lastCall.input[2]

\* C29: the supervisor ends the process with a non-zero status exactly when
\* a network episode has used up its MAX_NETWORK_RETRIES probes or the crash
\* counter has reached MAX_CRASH_RESTARTS; a completed host run is followed
\* by no failure exit.
C29_FailureExitExactlyAtLimits ==
  LET exhausted == /\ networkRetryCount = MAX_NETWORK_RETRIES
                   /\ hist.failedProbes = MAX_NETWORK_RETRIES
                   /\ hist.lastProbe = "fail"
      atLimit == crashRestartCount >= MAX_CRASH_RESTARTS
  IN /\ (exitCode \notin {NoExit, 0}) <=> (exhausted \/ atLimit)
     /\ pc = "completed" => exitCode \in {NoExit, 0}

C31_NoValidationWithoutGitBash ==
  gitBashPath = "" =>
    /\ \A c \in ChildIds : child[c].kind # "blocked"
    /\ (hist.lastSpawn.returned # 0 /\ hist.lastSpawn.request.command = "/bin/bash") =>
         /\ hist.lastSpawn.original.called
         /\ hist.lastSpawn.original.command = "/bin/bash"
         /\ hist.lastSpawn.original.args = hist.lastSpawn.request.args
         /\ hist.lastSpawn.original.options = hist.lastSpawn.options
         /\ child[hist.lastSpawn.returned].kind = "real"

\* a /bin/bash -c request with a command the validator denies was made with
\* no Git Bash path configured
C31_Witness ==
  /\ gitBashPath = ""
  /\ hist.lastSpawn.returned # 0
  /\ hist.lastSpawn.request = [command |-> "/bin/bash", args |-> <<"-c", "git log --all">>]
  /\ ~ValidatedOf[JStr("git log --all")].allowed
  /\ hist.lastSpawn.original.called

\* C32: a synthetic subprocess (blocked, pid 0, or hook-handling, the
\* supervisor's own pid) is never in the tracked set, and no teardown issues
\* a tree-kill for pid 0 or for the supervisor's own pid.
C32_SyntheticNeverTracked ==
  /\ \A c \in ChildIds :
       child[c].kind \in {"blocked", "hook"} =>
         /\ child[c].pid = (IF child[c].kind = "blocked" THEN 0 ELSE SupervisorPid)
         /\ c \notin childProcesses
         /\ c \notin hist.tracked
  /\ \A c \in childProcesses \cup hist.tracked \cup hist.killed :
       child[c].pid \notin {0, SupervisorPid}

\* a teardown issued a tree-kill while a synthetic subprocess existed
C32_Witness ==
  /\ hist.killed # {}
  /\ \E c \in ChildIds : child[c].kind \in {"blocked", "hook"}

\* C33: a teardown that finds the tracked set empty issues no kill and leaves
\* it empty; every teardown leaves the tracked set empty, so one that follows
\* at once issues no further kill; and an exit or error event of a subprocess
\* that was killed already leaves the tracked set as it is.
C33_TeardownIdempotent ==
  [][ /\ childProcesses = {} => hist'.killed = hist.killed
      /\ (hist'.killed # hist.killed \/ (exitTimer' /\ ~exitTimer)) =>
           /\ childProcesses' = {}
           /\ hist'.killed = hist.killed \cup {c \in childProcesses : child[c].pid # 0}
      /\ \A c \in hist.killed :
           (child'[c].notified /\ ~child[c].notified) => childProcesses' = childProcesses
    ]_vars

\* after a teardown that killed a subprocess, its exit or error event came
\* late and the tracked set is empty
C33_Witness ==
  /\ \E c \in hist.killed : child[c].notified
  /\ childProcesses = {}
  /\ Alive

\* C34: every network episode starts with the retry counter at its first
\* attempt whatever the episodes before it, the supervisor stops only when
\* one episode has had MAX_NETWORK_RETRIES failed probes, and while no
\* episode runs out of probes the host program is started again and again
\* and the process never ends.
C34_NetworkRestartsUnbounded ==
  /\ [][ (pc = "running" /\ pc' = "backoff") =>
           networkRetryCount = 0 /\ networkRetryCount' = 1
             /\ backoffMs' = NETWORK_BACKOFF_BASE_MS ]_vars
  /\ [](exitCode # NoExit =>
          /\ hist.failedProbes = MAX_NETWORK_RETRIES
          /\ networkRetryCount = MAX_NETWORK_RETRIES
          /\ exitCode = 1)
  /\ [](pc = "probing" => hist.failedProbes = networkRetryCount - 1)
  /\ (<>[](hist.failedProbes < MAX_NETWORK_RETRIES)) =>
       ([]<>(pc = "running") /\ [](exitCode = NoExit))

\* after MaxEpisodes network episodes or more, the host program runs again
C34_Witness ==
  /\ hist.netFailures = MaxEpisodes
  /\ hist.lastProbe = "ok"
  /\ hist.failedProbes = MAX_NETWORK_RETRIES - 1
  /\ pc = "running"
  /\ exitCode = NoExit

C36_InjectsUnlessRegistered ==
  (hist.lastCall.fn = "readFileSync" /\ SlashAll(hist.lastCall.input[1]) = settingsPath) =>
    LET content == hist.lastCall.input[2]
        output == hist.lastCall.output
        parsed == JSONParse(content)
        settings == parsed.val
        returned == JSONParse(output)
        hooks == Get(settings, "hooks")
        registered == Truthy(hooks) /\ HasLength(Get(hooks, "PermissionRequest"))
        command == Get(Get(InjectedHook.members[1].val, "hooks").members[1].val, "command")
    IN IF ~parsed.ok THEN output = content
       ELSE /\ returned.ok
            /\ readFileSync(hist.lastCall.input[1], output) = output
            /\ IF registered
               THEN returned.val = settings
               ELSE /\ Get(Get(returned.val, "hooks"), "PermissionRequest") = InjectedHook
                    /\ Includes(command.s, Marker)
                    /\ \A n \in 1..Len(settings.members) :
                         settings.members[n].key # "hooks" =>
                           Get(returned.val, settings.members[n].key)
                             = Get(settings, settings.members[n].key)
                    /\ \A n \in 1..Len(hooks.members) :
                         hooks.members[n].key # "PermissionRequest" =>
                           Get(Get(returned.val, "hooks"), hooks.members[n].key)
                             = Get(hooks, hooks.members[n].key)

\* the reason each check denies with, in the order of the source
CheckReasons ==
  << "Command has unbalanced quotes (cygpath crash risk) - ensure quotes are paired",
     cygpathRules[1].reason, cygpathRules[2].reason, cygpathRules[3].reason,
     "Path exceeds 260 characters (cygpath crash risk) - use shorter paths",
     safetyRules[1].reason, safetyRules[2].reason, safetyRules[3].reason,
     safetyRules[4].reason >>

Orderings(S) ==
  {p \in [1..Cardinality(S) -> S] : \A a, b \in 1..Cardinality(S) : a # b => p[a] # p[b]}

\* the orders of the nine checks got by permuting the crash rules, the hang
\* rules and the four groups (quote count, crash rules, path length, hang rules)
CheckOrders ==
  { LET groups == << <<1>>, crash, <<5>>, hang >>
    IN groups[g[1]] \o groups[g[2]] \o groups[g[3]] \o groups[g[4]] :
      g \in Orderings(1..4), crash \in Orderings(2..4), hang \in Orderings(6..9) }

\* validateCommand with its checks consulted in a given order
validateInOrder(c, order) ==
  LET firing == {n \in 1..Len(order) : ChecksOf[c][order[n]]} IN
  IF firing = {} THEN Allowed
  ELSE Denied(CheckReasons[order[CHOOSE n \in firing : \A m \in firing : n <= m]])

\* C37: whether validateCommand allows a command does not depend on the order
\* of its rules: consulting the checks in any order got by permuting the
\* crash rules, the hang rules or the groups gives the value of 'allowed'
\* that validateCommand returns (in the source's order, the same result).
C37_DecisionOrderIndependent ==
  (/\ hist.lastCall.fn = "validateCommand"
   /\ hist.lastCall.input.t = "string"
   /\ hist.lastCall.input.s # "") =>
    LET c == hist.lastCall.input.s
        out == hist.lastCall.output
    IN /\ validateInOrder(c, <<1, 2, 3, 4, 5, 6, 7, 8, 9>>) = out
       /\ \A order \in CheckOrders : validateInOrder(c, order).allowed = out.allowed

\* a denied command for which another order of the rules gives another reason
C37_Witness ==
  /\ hist.lastCall.fn = "validateCommand"
  /\ hist.lastCall.input.t = "string"
  /\ ~hist.lastCall.output.allowed
  /\ \E order \in CheckOrders :
       LET r == validateInOrder(hist.lastCall.input.s, order)
       IN ~r.allowed /\ r.reason # hist.lastCall.output.reason

\* C38: a command that holds a line-feed or carriage-return character, the
\* subshell opener $( or a backtick, and on which neither quote check fires,
\* is denied with the reason of the shell-expansion rule.
C38_ExpansionCharactersDenied ==
  (/\ hist.lastCall.fn = "validateCommand"
   /\ hist.lastCall.input.t = "string") =>
    LET c == hist.lastCall.input.s IN
    (/\ \/ Includes(c, "\n")
        \/ Includes(c, "\r")
        \/ Includes(c, "$(")
        \/ Includes(c, Backtick)
     /\ QuoteCount(c) % 2 = 0
     /\ ~NestedQuotes(c)) =>
      hist.lastCall.output = Denied(cygpathRules[2].reason)

\* C39: by the number of single quotes in a command: an odd number is denied
\* as unbalanced quotes, an even number of four or more is denied as nested
\* quotes, also when the quotes enclose separate arguments, and with none or
\* two neither quote check denies.
C39_ZeroOrTwoQuotesPass ==
  (/\ hist.lastCall.fn = "validateCommand"
   /\ hist.lastCall.input.t = "string"
   /\ hist.lastCall.input.s # "") =>
    LET c == hist.lastCall.input.s
        out == hist.lastCall.output
        n == QuoteCount(c)
    IN /\ n % 2 = 1 => out = Denied(CheckReasons[1])
       /\ (n % 2 = 0 /\ n >= 4) => out = Denied(CheckReasons[2])
       /\ n \in {0, 2} => (out.allowed \/ out.reason \notin {CheckReasons[1], CheckReasons[2]})

\* two separate quoted arguments, four quotes, denied as nested quotes
C39_Witness ==
  /\ hist.lastCall.fn = "validateCommand"
  /\ hist.lastCall.input = JStr("echo 'a' 'b'")
  /\ hist.lastCall.output = Denied(cygpathRules[1].reason)
  /\ ValidatedOf[JStr("echo 'a'")].allowed

====
